---- MODULE Spec2Model ----
(***************************************************************************)
(* Hair system (blenkernel/intern/hair.c): follicle pattern, guide curves, *)
(* follicle binding and the export cache with its dependency bitmask.      *)
(*                                                                         *)
(* Memory is modelled by the state of each pointer field: "null", "live"   *)
(* (points to an allocation it may use) or "freed" (dangling: the          *)
(* allocation was released and the field was not reset).  A buffer is a    *)
(* record [p |-> pointer state, d |-> contents of the allocation].         *)
(* Undefined behaviour (NULL dereference, use of a dangling pointer, a     *)
(* read or write outside an allocation, use of an indeterminate value)     *)
(* ends the run in a fault state: nothing is claimed of what follows it.   *)
(* BLI_assert is compiled out (release build); assertions are stated as    *)
(* properties instead.                                                     *)
(***************************************************************************)
EXTENDS Integers, Sequences, FiniteSets, TLC

\* ---- bounds of the model ----
MaxFollicles == 1      \* largest count given to BKE_hair_generate_follicles
MaxCurves == 1         \* largest number of guide curves
MaxNumVerts == 2       \* largest numverts given to BKE_hair_set_fiber_curve
MaxSubdiv == 1         \* largest subdivision level given to the cache update
WUnit == 2             \* a parent weight w stands for the float w / WUnit
MaxStrands == 3        \* largest number of guide strands given to the binder
MaxHolders == 2        \* number of GeometrySetPtr variables
MaxThreads == 2        \* number of threads sharing one container
MaxRefs == 2           \* largest number of references one thread holds
MaxPoints == 3         \* largest numverts of a curve given to the subdivider
MaxLevel == 2          \* largest subdivision level given to the subdivider
MaxCoord == 1          \* largest coordinate of a control point or a root
MaxGuides == 2         \* largest number of guide curves of differing lengths
MaxTris == 2           \* largest number of triangles of a scattered mesh
MaxArea == 2           \* largest area of a triangle, in units of 1 / FUnit
MaxDensity == 2        \* largest density besides the socket's default
FUnit == 2             \* a float f in [0, 1) stands for f / FUnit
MaxRuns == 2           \* number of runs of the distributor on one mesh
MaxFrames == 2         \* largest number of frames of a bake
MaxCalls == 5          \* largest number of calls on the two hair systems
MaxOpen == 3           \* largest number of reader archives left open

VARIABLES hsys, cache, last, fault, geo, usr, sub, sct, bake, cpy, arc

\* the hair system with its export cache, the geometry sets and the
\* subdivider
hair == <<hsys, cache, last, fault>>
rest == <<sct, bake, cpy, arc>>
geom == <<geo, usr, sub, rest>>

vars == <<hsys, cache, last, fault, geo, usr, sub, sct, bake, cpy, arc>>

\* ---- values ----
\* 0xFFFFFFFF, written as the int it converts to (const int si = ...)
HAIR_STRAND_INDEX_NONE == 0 - 1

HAIR_EXPORT_FIBER_ROOT_POSITIONS == "FIBER_ROOT_POSITIONS"
HAIR_EXPORT_FIBER_VERTEX_COUNTS == "FIBER_VERTEX_COUNTS"
HAIR_EXPORT_FOLLICLE_BINDING == "FOLLICLE_BINDING"
HAIR_EXPORT_FIBER_VERTICES == "FIBER_VERTICES"
HAIR_EXPORT_FIBER_CURVES == "FIBER_CURVES"

HAIR_EXPORT_ALL ==
  { HAIR_EXPORT_FIBER_ROOT_POSITIONS, HAIR_EXPORT_FIBER_VERTEX_COUNTS,
    HAIR_EXPORT_FOLLICLE_BINDING, HAIR_EXPORT_FIBER_VERTICES,
    HAIR_EXPORT_FIBER_CURVES }

\* An int field that was allocated but never written.
Indeterminate == 0 - 1

\* Mesh samples: 0 is the zeroed sample, which the surface evaluator rejects.
Samples == 0 .. 1

BKE_mesh_sample_eval(sample) == sample # 0

\* What is in the evaluator's output loc after the call: the position of
\* the sample (positions are numbered as the samples, 0 being the zero
\* vector), or what was there before when the evaluation fails.
mesh_sample_eval_loc(sample, loc) ==
  IF BKE_mesh_sample_eval(sample) THEN sample ELSE loc

NullBuf == [p |-> "null", d |-> << >>]

LiveBuf(d) == [p |-> "live", d |-> d]

\* The pointer keeps its address after MEM_freeN: it dangles until reset.
FreedBuf == [p |-> "freed", d |-> << >>]

\* n elements whose contents the model does not follow
Slots(n) == [i \in 1 .. n |-> 0]

Min(a, b) == IF a < b THEN a ELSE b

RECURSIVE SumSeq(_)
SumSeq(s) == IF s = << >> THEN 0 ELSE Head(s) + SumSeq(Tail(s))

RECURSIVE Shl(_, _)
Shl(x, n) == IF n = 0 THEN x ELSE Shl(2 * x, n - 1)

\* ---- hair system ----

\* MEM_callocN leaves every field of a follicle zero.
ZeroFollicle ==
  [ mesh_sample |-> 0,
    parent_index |-> <<0, 0, 0, 0>>,
    parent_weight |-> <<0, 0, 0, 0>> ]

UnboundIndex == << HAIR_STRAND_INDEX_NONE, HAIR_STRAND_INDEX_NONE,
                   HAIR_STRAND_INDEX_NONE, HAIR_STRAND_INDEX_NONE >>

\* An element of the curve array that MEM_reallocN added and nobody wrote.
GarbageCurve == [numverts |-> Indeterminate, vertstart |-> Indeterminate]

BKE_hair_new ==
  [ pattern |-> TRUE,
    follicles |-> NullBuf,
    num_follicles |-> 0,
    curves |-> NullBuf,
    totcurves |-> 0,
    verts |-> NullBuf,
    totverts |-> 0,
    flag |-> FALSE ]

BKE_hair_export_cache_new ==
  [ fiber_curves |-> NullBuf,
    totcurves |-> 0,
    totverts |-> 0,
    fiber_verts |-> NullBuf,
    fiber_tangents |-> NullBuf,
    fiber_normals |-> NullBuf,
    follicles |-> "null",
    totfibercurves |-> 0,
    fiber_numverts |-> NullBuf,
    totfiberverts |-> 0,
    fiber_root_position |-> NullBuf ]

\* Outcome of one call on the hair system: the hair system after it, the
\* fault it ran into ("none" when it returned) and the value it returned.
HsysResult(h, f, r) == [h |-> h, f |-> f, r |-> r]

\* BKE_hair_batch_cache_dirty only tags the draw batches, which are not part
\* of this model.

\* A variant that allocates only the follicles that were generated.
GenerateWithoutSpare(h, count, generated, samples) ==
  IF ~h.pattern
    THEN HsysResult(h, "null_deref", FALSE)
    ELSE HsysResult(
           [h EXCEPT
              !.follicles =
                 LiveBuf([i \in 1 .. generated |->
                            [ZeroFollicle EXCEPT !.mesh_sample = samples[i]]]),
              !.num_follicles = generated,
              !.flag = TRUE],
           "none", FALSE)

\* pattern->follicles is an array of count zeroed follicles; the generator
\* writes the samples of the leading ones and returns how many it made.
BKE_hair_generate_follicles(h, count, generated, samples) ==
  IF ~h.pattern
    THEN HsysResult(h, "null_deref", FALSE)
    ELSE HsysResult(
           [h EXCEPT
              !.follicles =
                 LiveBuf([i \in 1 .. count |->
                            IF i <= generated
                              THEN [ZeroFollicle EXCEPT !.mesh_sample = samples[i]]
                              ELSE ZeroFollicle]),
              !.num_follicles = generated,
              !.flag = TRUE],
           "none", FALSE)

\* MEM_reallocN keeps the leading elements and leaves the new ones unwritten.
ReallocCurves(buf, n) ==
  LiveBuf([i \in 1 .. n |-> IF i <= Len(buf.d) THEN buf.d[i] ELSE GarbageCurve])

BKE_hair_fiber_curves_begin(h, totcurves) ==
  IF totcurves # h.totcurves
    THEN IF h.curves.p = "freed"
           THEN HsysResult(h, "use_after_free", FALSE)
           ELSE HsysResult(
                  [h EXCEPT !.curves = ReallocCurves(h.curves, totcurves),
                            !.totcurves = totcurves,
                            !.flag = TRUE],
                  "none", FALSE)
    ELSE HsysResult(h, "none", FALSE)

\* index is 0-based as in the source; the assertion index <= totcurves is
\* compiled out, the write goes to curves[index] whatever the index.
BKE_hair_set_fiber_curve(h, index, numverts) ==
  IF h.curves.p = "null"
    THEN HsysResult(h, "null_deref", FALSE)
  ELSE IF h.curves.p = "freed"
    THEN HsysResult(h, "use_after_free", FALSE)
  ELSE IF index >= Len(h.curves.d)
    THEN HsysResult(h, "out_of_bounds", FALSE)
  ELSE HsysResult(
         [h EXCEPT !.curves.d[index + 1].numverts = numverts,
                   !.flag = TRUE],
         "none", FALSE)

RECURSIVE VertStartOf(_, _)
VertStartOf(curves, i) ==
  IF i = 0 THEN 0 ELSE VertStartOf(curves, i - 1) + curves[i].numverts

\* Reads and writes curves[0 .. totcurves-1]; returns the total number of
\* vertices.
hair_curve_calc_vertstart(h) ==
  IF h.totcurves = 0
    THEN HsysResult(h, "none", 0)
  ELSE IF h.curves.p = "null"
    THEN HsysResult(h, "null_deref", 0)
  ELSE IF h.curves.p = "freed"
    THEN HsysResult(h, "use_after_free", 0)
  ELSE IF h.totcurves > Len(h.curves.d)
    THEN HsysResult(h, "out_of_bounds", 0)
  ELSE IF \E i \in 1 .. h.totcurves : h.curves.d[i].numverts = Indeterminate
    THEN HsysResult(h, "indeterminate_value", 0)
  ELSE HsysResult(
         [h EXCEPT !.curves.d =
            [i \in 1 .. Len(h.curves.d) |->
               IF i <= h.totcurves
                 THEN [h.curves.d[i] EXCEPT
                         !.vertstart = VertStartOf(h.curves.d, i - 1)]
                 ELSE h.curves.d[i]]],
         "none", VertStartOf(h.curves.d, h.totcurves))

\* Vertex contents are not tracked: a vertex buffer is its slots.
BKE_hair_fiber_curves_end(h) ==
  LET c == hair_curve_calc_vertstart(h)
  IN IF c.f # "none" THEN c
     ELSE IF c.r # c.h.totverts
       THEN IF c.h.verts.p = "freed"
              THEN HsysResult(h, "use_after_free", FALSE)
              ELSE HsysResult([c.h EXCEPT !.verts = LiveBuf(Slots(c.r)),
                                          !.totverts = c.r],
                              "none", FALSE)
     ELSE HsysResult(c.h, "none", FALSE)

\* index is 0-based as in the source; the assertion index <= totverts is
\* compiled out, the write goes to verts[index] whatever the index.
BKE_hair_set_fiber_vertex(h, index) ==
  IF h.verts.p = "null"
    THEN HsysResult(h, "null_deref", FALSE)
  ELSE IF h.verts.p = "freed"
    THEN HsysResult(h, "use_after_free", FALSE)
  ELSE IF index >= Len(h.verts.d)
    THEN HsysResult(h, "out_of_bounds", FALSE)
  ELSE HsysResult(h, "none", FALSE)

\* MEM_dupallocN is given hsys->curve_data.curves itself, just after it was
\* freed: it duplicates NULL (giving NULL) or reads a released allocation.
BKE_hair_set_fiber_curves(h, totcurves, totverts) ==
  IF h.curves.p # "null" \/ h.verts.p # "null"
    THEN HsysResult(h, "use_after_free", FALSE)
    ELSE HsysResult([h EXCEPT !.curves = NullBuf,
                              !.totcurves = totcurves,
                              !.verts = NullBuf,
                              !.totverts = totverts,
                              !.flag = TRUE],
                    "none", FALSE)

BKE_hair_clear_fiber_curves(h) ==
  HsysResult([h EXCEPT !.curves = NullBuf,
                       !.totcurves = 0,
                       !.verts = NullBuf,
                       !.totverts = 0,
                       !.flag = FALSE],
             "none", FALSE)

\* ---- follicle binding ----

\* A variant that swaps the weights and leaves the indices where they are.
SwapWeightsOnly(fol, a, b) ==
  [fol EXCEPT !.parent_weight[a] = fol.parent_weight[b],
              !.parent_weight[b] = fol.parent_weight[a]]

\* SWAP of idx[a], idx[b] and of w[a], w[b]; slots are 1-based here.
FIBERSWAP(fol, a, b) ==
  [fol EXCEPT !.parent_index[a] = fol.parent_index[b],
              !.parent_index[b] = fol.parent_index[a],
              !.parent_weight[a] = fol.parent_weight[b],
              !.parent_weight[b] = fol.parent_weight[a]]

\* The inner loop: the first slot in k .. 4 holding the largest weight.
RECURSIVE MaxSlot(_, _, _)
MaxSlot(w, maxi, i) ==
  IF i > 4 THEN maxi
  ELSE IF w[i] > w[maxi] THEN MaxSlot(w, i, i + 1)
  ELSE MaxSlot(w, maxi, i + 1)

RECURSIVE SortFrom(_, _)
SortFrom(fol, k) ==
  IF k > 3 THEN fol
  ELSE LET maxi == MaxSlot(fol.parent_weight, k, k + 1)
       IN SortFrom(IF maxi # k THEN FIBERSWAP(fol, k, maxi) ELSE fol, k + 1)

\* A variant that leaves the slots in the order they were written.
UnsortedWeights(fol) == fol

hair_fiber_sort_weights(fol) == SortFrom(fol, 1)

\* The three assertions of hair_fiber_verify_weights; epsilon is below the
\* weight unit, so the sum is the unit itself.
hair_fiber_verify_weights(fol) ==
  LET w == fol.parent_weight
  IN /\ \A k \in 1 .. 4 : w[k] >= 0
     /\ w[1] + w[2] + w[3] + w[4] = WUnit
     /\ w[1] >= w[2] /\ w[2] >= w[3] /\ w[3] >= w[4]

CLAMP(x, lo, hi) == IF x < lo THEN lo ELSE IF x > hi THEN hi ELSE x

\* A variant without the branch for found == 1.
ClosestStrandWithoutSingle(fol, kd) ==
  LET found == Len(kd.near)
      idx == [k \in 1 .. 4 |->
                IF k <= found THEN kd.near[k] ELSE HAIR_STRAND_INDEX_NONE]
      w0 == [k \in 1 .. 4 |-> IF k <= found THEN fol.parent_weight[k] ELSE 0]
      w == IF found = 3
             THEN << CLAMP(kd.tri[1], 0, WUnit), CLAMP(kd.tri[2], 0, WUnit),
                     CLAMP(kd.tri[3], 0, WUnit), 0 >>
           ELSE IF found = 2
             THEN << CLAMP(WUnit - kd.t, 0, WUnit), CLAMP(kd.t, 0, WUnit), 0, 0 >>
           ELSE w0
  IN hair_fiber_sort_weights(
       [fol EXCEPT !.parent_index = idx, !.parent_weight = w])

\* What the collaborators return for one follicle: near is the answer of
\* BLI_kdtree_find_nearest_n (strand indices, nearest first), tri the weights
\* of interp_weights_tri_v3 and t the factor of line_point_factor_v3.
hair_fiber_find_closest_strand(fol, kd) ==
  LET found == Len(kd.near)
      idx == [k \in 1 .. 4 |->
                IF k <= found THEN kd.near[k] ELSE HAIR_STRAND_INDEX_NONE]
      w0 == [k \in 1 .. 4 |-> IF k <= found THEN fol.parent_weight[k] ELSE 0]
      w == IF found = 3
             THEN << CLAMP(kd.tri[1], 0, WUnit), CLAMP(kd.tri[2], 0, WUnit),
                     CLAMP(kd.tri[3], 0, WUnit), 0 >>
           ELSE IF found = 2
             THEN << CLAMP(WUnit - kd.t, 0, WUnit), CLAMP(kd.t, 0, WUnit), 0, 0 >>
           ELSE IF found = 1
             THEN << WUnit, 0, 0, 0 >>
           ELSE w0
  IN hair_fiber_sort_weights(
       [fol EXCEPT !.parent_index = idx, !.parent_weight = w])

\* The binder past its first test, with HAIR_SYSTEM_UPDATE_FOLLICLE_BINDING
\* set; kds[i] is what the collaborators return for follicle i.
BindDirtyFollicles(h, kds) ==
  IF ~h.pattern
    THEN HsysResult([h EXCEPT !.flag = FALSE], "none", TRUE)
  ELSE IF h.totcurves = 0
    THEN HsysResult(
           [h EXCEPT !.flag = FALSE,
                     !.follicles.d =
                        [i \in 1 .. Len(h.follicles.d) |->
                           IF i <= h.num_follicles
                             THEN [h.follicles.d[i] EXCEPT
                                     !.parent_index = UnboundIndex,
                                     !.parent_weight = <<0, 0, 0, 0>>]
                             ELSE h.follicles.d[i]]],
           "none", FALSE)
  ELSE IF h.curves.p = "null"
    THEN HsysResult(h, "null_deref", FALSE)
  ELSE IF h.curves.p = "freed"
    THEN HsysResult(h, "use_after_free", FALSE)
  ELSE IF h.totcurves > Len(h.curves.d)
    THEN HsysResult(h, "out_of_bounds", FALSE)
  ELSE HsysResult(
         [h EXCEPT !.flag = FALSE,
                   !.follicles.d =
                      [i \in 1 .. Len(h.follicles.d) |->
                         IF i <= h.num_follicles
                            /\ BKE_mesh_sample_eval(h.follicles.d[i].mesh_sample)
                           THEN hair_fiber_find_closest_strand(h.follicles.d[i], kds[i])
                           ELSE h.follicles.d[i]]],
         "none", TRUE)

\* A variant without the test of the flag.
BindIgnoringFlag(h, kds) == BindDirtyFollicles(h, kds)

BKE_hair_bind_follicles(h, kds) ==
  IF ~h.flag
    THEN HsysResult(h, "none", TRUE)
    ELSE BindDirtyFollicles(h, kds)

\* The answers the collaborators can give when the tree holds n strands.
InjSeqs(len, n) ==
  { s \in [1 .. len -> 0 .. n - 1] : \A i, j \in 1 .. len : i # j => s[i] # s[j] }

TriWeights ==
  { w \in [1 .. 3 -> 0 .. WUnit] : w[1] + w[2] + w[3] = WUnit }

KdAnswers(n) ==
  { [near |-> s, tri |-> w, t |-> t] :
      s \in InjSeqs(Min(3, n), n),
      w \in IF n >= 3 THEN TriWeights ELSE { <<0, 0, 0>> },
      t \in IF n = 2 THEN (0 - 1) .. (WUnit + 1) ELSE { 0 } }

\* The tree was not asked.
NoAnswer == [near |-> << >>, tri |-> <<0, 0, 0>>, t |-> 0]

\* ---- export cache ----

\* A variant that leaves out the last vertex of the subdivided curve.
SubdivLengthWithoutLast(orig_length, subdiv) ==
  Shl(orig_length - 1, subdiv)

\* Returns number of vertices in a curve after subdivision
hair_get_strand_subdiv_length(orig_length, subdiv) ==
  Shl(orig_length - 1, subdiv) + 1

\* Returns total number of vertices after subdivision
hair_get_strand_subdiv_numverts(numstrands, numverts, subdiv) ==
  Shl(numverts - numstrands, subdiv) + numstrands

\* Returns flags for missing data parts: a pointer test, which a dangling
\* pointer passes as well as a live one.
hair_export_cache_get_required_updates(c) ==
  (IF c.fiber_curves.p = "null" THEN {HAIR_EXPORT_FIBER_CURVES} ELSE {})
  \cup (IF c.fiber_verts.p = "null" \/ c.fiber_normals.p = "null"
             \/ c.fiber_tangents.p = "null"
          THEN {HAIR_EXPORT_FIBER_VERTICES} ELSE {})
  \cup (IF c.follicles = "null" THEN {HAIR_EXPORT_FOLLICLE_BINDING} ELSE {})
  \cup (IF c.fiber_root_position.p = "null"
          THEN {HAIR_EXPORT_FIBER_ROOT_POSITIONS} ELSE {})
  \cup (IF c.fiber_numverts.p = "null"
          THEN {HAIR_EXPORT_FIBER_VERTEX_COUNTS} ELSE {})

\* A variant that forgets the second rule.
DependenciesWithoutBindingRule(data) ==
  IF HAIR_EXPORT_FIBER_CURVES \in data
    THEN data \cup {HAIR_EXPORT_FIBER_VERTICES, HAIR_EXPORT_FOLLICLE_BINDING}
    ELSE data

\* Include data dependencies of the given flags
hair_export_cache_get_dependencies(data) ==
  LET d1 == IF HAIR_EXPORT_FIBER_CURVES \in data
              THEN data \cup {HAIR_EXPORT_FIBER_VERTICES, HAIR_EXPORT_FOLLICLE_BINDING}
              ELSE data
  IN IF HAIR_EXPORT_FOLLICLE_BINDING \in d1
       THEN d1 \cup {HAIR_EXPORT_FIBER_ROOT_POSITIONS, HAIR_EXPORT_FIBER_VERTEX_COUNTS}
       ELSE d1

\* The update runs its blocks one after the other on a machine state
\* m = [c: the cache, order: the categories recomputed so far, f: fault].
Fail(m, f) == [m EXCEPT !.f = f]

\* First fault met when reading elements 1 .. n of an array.
ArrayFault(buf, n) ==
  IF n = 0 THEN "none"
  ELSE IF buf.p = "null" THEN "null_deref"
  ELSE IF buf.p = "freed" THEN "use_after_free"
  ELSE IF n > Len(buf.d) THEN "out_of_bounds"
  ELSE "none"

\* MEM_reallocN_id of a pointer: NULL allocates, a dangling pointer faults.
ReallocFault(buf) == IF buf.p = "freed" THEN "use_after_free" ELSE "none"

FirstFault(fs) ==
  IF \E i \in 1 .. Len(fs) : fs[i] # "none"
    THEN fs[CHOOSE i \in 1 .. Len(fs) :
              fs[i] # "none" /\ \A j \in 1 .. i - 1 : fs[j] = "none"]
    ELSE "none"

\* if (data & HAIR_EXPORT_FIBER_CURVES): cache subdivided curves
UpdateFiberCurves(m, h, subdiv, data) ==
  IF m.f # "none" \/ HAIR_EXPORT_FIBER_CURVES \notin data THEN m
  ELSE
    LET totcurves == h.totcurves
        f == FirstFault(<<
               ReallocFault(m.c.fiber_curves),
               ArrayFault(h.curves, totcurves),
               IF \E i \in 1 .. Min(totcurves, Len(h.curves.d)) :
                    h.curves.d[i].numverts = Indeterminate
                 THEN "indeterminate_value" ELSE "none" >>)
        numverts == [i \in 1 .. totcurves |->
                       hair_get_strand_subdiv_length(h.curves.d[i].numverts, subdiv)]
    IN IF f # "none" THEN Fail(m, f)
       ELSE [m EXCEPT
               !.c.totcurves = totcurves,
               !.c.fiber_curves =
                  LiveBuf([i \in 1 .. totcurves |->
                             [ numverts |-> numverts[i],
                               vertstart |-> SumSeq(SubSeq(numverts, 1, i - 1)) ]]),
               !.c.totverts = SumSeq(numverts),
               !.order = Append(m.order, HAIR_EXPORT_FIBER_CURVES)]

\* Calculate tangent and normal vectors for all vertices on a curve: what
\* the function asserts and the vertices of the curve it reads.
hair_curve_calc_vectors(numverts) ==
  [ asserted |-> numverts >= 2,
    reads |-> {0, 1}
                \cup UNION { {i - 1, i + 1} : i \in 1 .. numverts - 2 }
                \cup {numverts - 2, numverts - 1} ]

\* One turn of the loop over the cached curves, up to the call of
\* hair_curve_calc_vectors: hair_curve_subdivide reads the guide vertices
\* and writes the subdivided ones.
BeforeVectorsFault(c, h, subdiv, i) ==
  LET f0 == FirstFault(<< ArrayFault(h.curves, i), ArrayFault(c.fiber_curves, i) >>)
  IN IF f0 # "none" THEN f0
     ELSE
       LET orig == h.curves.d[i]
           curve == c.fiber_curves.d[i]
       IN IF orig.numverts = Indeterminate \/ orig.vertstart = Indeterminate
            THEN "indeterminate_value"
          ELSE IF ArrayFault(h.verts, orig.vertstart + orig.numverts) # "none"
            THEN ArrayFault(h.verts, orig.vertstart + orig.numverts)
          ELSE IF curve.vertstart
                    + hair_get_strand_subdiv_length(orig.numverts, subdiv)
                    > c.totverts
            THEN "out_of_bounds"
          ELSE "none"

\* The whole turn: hair_curve_calc_vectors reads verts[0], verts[1],
\* verts[numverts-2] and verts[numverts-1].
FiberVerticesFault(c, h, subdiv, i) ==
  IF BeforeVectorsFault(c, h, subdiv, i) # "none" THEN BeforeVectorsFault(c, h, subdiv, i)
  ELSE LET curve == c.fiber_curves.d[i]
       IN IF curve.numverts < 2
               /\ (curve.vertstart + 1 >= c.totverts
                   \/ curve.vertstart + curve.numverts - 2 < 0)
            THEN "out_of_bounds"
          ELSE "none"

\* The numverts of the calls of hair_curve_calc_vectors the vertices block
\* makes: one for every turn of the loop that is reached and gets to it.
VectorsCalls(m, h, subdiv, data) ==
  IF m.f # "none" \/ HAIR_EXPORT_FIBER_VERTICES \notin data
       \/ ReallocFault(m.c.fiber_verts) # "none"
       \/ ReallocFault(m.c.fiber_tangents) # "none"
       \/ ReallocFault(m.c.fiber_normals) # "none"
    THEN << >>
  ELSE LET reached(i) ==
             /\ \A j \in 1 .. i - 1 : FiberVerticesFault(m.c, h, subdiv, j) = "none"
             /\ BeforeVectorsFault(m.c, h, subdiv, i) = "none"
           n == Cardinality({ i \in 1 .. m.c.totcurves : reached(i) })
       IN [i \in 1 .. n |-> m.c.fiber_curves.d[i].numverts]

\* if (data & HAIR_EXPORT_FIBER_VERTICES)
UpdateFiberVertices(m, h, subdiv, data) ==
  IF m.f # "none" \/ HAIR_EXPORT_FIBER_VERTICES \notin data THEN m
  ELSE
    LET totcurves == m.c.totcurves
        totverts == m.c.totverts
        f == FirstFault(
               << ReallocFault(m.c.fiber_verts),
                  ReallocFault(m.c.fiber_tangents),
                  ReallocFault(m.c.fiber_normals) >>
               \o [i \in 1 .. totcurves |-> FiberVerticesFault(m.c, h, subdiv, i)])
    IN IF f # "none" THEN Fail(m, f)
       ELSE [m EXCEPT
               !.c.fiber_verts = LiveBuf(Slots(totverts)),
               !.c.fiber_tangents = LiveBuf(Slots(totverts)),
               !.c.fiber_normals = LiveBuf(Slots(totverts)),
               !.order = Append(m.order, HAIR_EXPORT_FIBER_VERTICES)]

\* if (data & HAIR_EXPORT_FOLLICLE_BINDING): borrow the pattern's array
UpdateFollicleBinding(m, h, subdiv, data) ==
  IF m.f # "none" \/ HAIR_EXPORT_FOLLICLE_BINDING \notin data THEN m
  ELSE [m EXCEPT
          !.c.follicles = h.follicles.p,
          !.c.totfibercurves = h.num_follicles,
          !.order = Append(m.order, HAIR_EXPORT_FOLLICLE_BINDING)]

\* The inner loop over the parent slots k .. 4 of one follicle: the sum of
\* numverts * weight, in units of 1 / WUnit; stops at the first unused slot.
RECURSIVE FiberLength(_, _, _)
FiberLength(c, fol, k) ==
  IF k > 4 THEN 0
  ELSE IF fol.parent_index[k] = HAIR_STRAND_INDEX_NONE \/ fol.parent_weight[k] = 0
    THEN 0
  ELSE c.fiber_curves.d[fol.parent_index[k] + 1].numverts * fol.parent_weight[k]
         + FiberLength(c, fol, k + 1)

\* The strand indices the inner loop reads for one follicle.
RECURSIVE ParentsRead(_, _)
ParentsRead(fol, k) ==
  IF k > 4 THEN {}
  ELSE IF fol.parent_index[k] = HAIR_STRAND_INDEX_NONE \/ fol.parent_weight[k] = 0
    THEN {}
  ELSE {fol.parent_index[k]} \cup ParentsRead(fol, k + 1)

FiberCountFault(c, h, i) ==
  LET reads == ParentsRead(h.follicles.d[i], 1)
  IN IF reads = {} THEN "none"
     ELSE IF c.fiber_curves.p = "null" THEN "null_deref"
     ELSE IF c.fiber_curves.p = "freed" THEN "use_after_free"
     ELSE IF \E si \in reads : si >= Len(c.fiber_curves.d) THEN "out_of_bounds"
     ELSE "none"

\* A variant that truncates without adding the half.
TruncatedFiberLength(x) == x \div WUnit

\* (int)(fiblen + 0.5f) for fiblen = x / WUnit, x >= 0
RoundFiberLength(x) == (2 * x + WUnit) \div (2 * WUnit)

\* if (data & HAIR_EXPORT_FIBER_VERTEX_COUNTS)
UpdateFiberVertexCounts(m, h, subdiv, data) ==
  IF m.f # "none" \/ HAIR_EXPORT_FIBER_VERTEX_COUNTS \notin data THEN m
  ELSE
    LET totfibercurves == m.c.totfibercurves
        f0 == FirstFault(<< ReallocFault(m.c.fiber_numverts),
                            ArrayFault(h.follicles, totfibercurves) >>)
        f == IF f0 # "none" THEN f0
             ELSE FirstFault([i \in 1 .. totfibercurves |->
                                FiberCountFault(m.c, h, i)])
        numverts == [i \in 1 .. totfibercurves |->
                       RoundFiberLength(FiberLength(m.c, h.follicles.d[i], 1))]
    IN IF f # "none" THEN Fail(m, f)
       ELSE [m EXCEPT
               !.c.fiber_numverts = LiveBuf(numverts),
               !.c.totfiberverts = SumSeq(numverts),
               !.order = Append(m.order, HAIR_EXPORT_FIBER_VERTEX_COUNTS)]

\* if (data & HAIR_EXPORT_FIBER_ROOT_POSITIONS): element i of the newly
\* allocated array is the evaluator's output for the follicle's sample; the
\* value the evaluator returns is not looked at.
UpdateFiberRootPositions(m, h, subdiv, data) ==
  IF m.f # "none" \/ HAIR_EXPORT_FIBER_ROOT_POSITIONS \notin data THEN m
  ELSE
    LET totfibercurves == m.c.totfibercurves
        f == FirstFault(<< ReallocFault(m.c.fiber_root_position),
                           ArrayFault(h.follicles, totfibercurves) >>)
    IN IF f # "none" THEN Fail(m, f)
       ELSE [m EXCEPT
               !.c.fiber_root_position =
                  LiveBuf([i \in 1 .. totfibercurves |->
                             mesh_sample_eval_loc(h.follicles.d[i].mesh_sample,
                                                  Indeterminate)]),
               !.order = Append(m.order, HAIR_EXPORT_FIBER_ROOT_POSITIONS)]

\* The else branch of if (hsys->pattern)
UpdateNoPattern(m) ==
  IF m.f # "none" THEN m
  ELSE IF m.c.fiber_numverts.p = "freed" \/ m.c.fiber_root_position.p = "freed"
    THEN Fail(m, "double_free")
  ELSE [m EXCEPT !.c.follicles = "null",
                 !.c.totfibercurves = 0,
                 !.c.fiber_numverts = NullBuf,
                 !.c.fiber_root_position = NullBuf]

\* A variant that computes the vertices before the curves.
UpdateBlocksVerticesFirst(m, h, subdiv, data) ==
  LET m1 == UpdateFiberVertices(m, h, subdiv, data)
      m2 == UpdateFiberCurves(m1, h, subdiv, data)
  IN IF h.pattern
       THEN LET m3 == UpdateFollicleBinding(m2, h, subdiv, data)
                m4 == UpdateFiberVertexCounts(m3, h, subdiv, data)
            IN UpdateFiberRootPositions(m4, h, subdiv, data)
       ELSE UpdateNoPattern(m2)

\* The blocks of the update in the order the function runs them.
UpdateBlocks(m, h, subdiv, data) ==
  LET m1 == UpdateFiberCurves(m, h, subdiv, data)
      m2 == UpdateFiberVertices(m1, h, subdiv, data)
  IN IF h.pattern
       THEN LET m3 == UpdateFollicleBinding(m2, h, subdiv, data)
                m4 == UpdateFiberVertexCounts(m3, h, subdiv, data)
            IN UpdateFiberRootPositions(m4, h, subdiv, data)
       ELSE UpdateNoPattern(m2)

\* Returns [c: the cache after the call, order: what was recomputed, in
\* order, f: fault, r: the flags returned].
BKE_hair_export_cache_update(c, h, subdiv, requested_data) ==
  LET data == hair_export_cache_get_dependencies(requested_data)
                \cap hair_export_cache_get_required_updates(c)
      m0 == [c |-> c, order |-> << >>, f |-> "none"]
      m == UpdateBlocks(m0, h, subdiv, data)
  IN [c |-> m.c, order |-> m.order, f |-> m.f, r |-> data,
      vectors |-> VectorsCalls(UpdateFiberCurves(m0, h, subdiv, data),
                               h, subdiv, data)]

\* if (ptr) { MEM_freeN(ptr); ptr = NULL; }
FreeAndReset(buf) == NullBuf

FreeFault(buf) == IF buf.p = "freed" THEN "double_free" ELSE "none"

\* Returns [c: the cache after the call, f: fault].
BKE_hair_export_cache_invalidate(c, invalidate) ==
  LET data == hair_export_cache_get_dependencies(invalidate)
      c1 == IF HAIR_EXPORT_FIBER_CURVES \in data
              THEN [c EXCEPT !.fiber_curves = FreeAndReset(c.fiber_curves)]
              ELSE c
      \* the third branch frees fiber_normals and resets fiber_tangents
      c2 == IF HAIR_EXPORT_FIBER_VERTICES \in data
              THEN [c1 EXCEPT
                      !.fiber_verts = FreeAndReset(c1.fiber_verts),
                      !.fiber_tangents = FreeAndReset(c1.fiber_tangents),
                      !.fiber_normals =
                         IF c1.fiber_normals.p = "null" THEN NullBuf ELSE FreedBuf]
              ELSE c1
      c3 == IF HAIR_EXPORT_FOLLICLE_BINDING \in data
              THEN [c2 EXCEPT !.follicles = "null"]
              ELSE c2
      c4 == IF HAIR_EXPORT_FIBER_ROOT_POSITIONS \in data
              THEN [c3 EXCEPT
                      !.fiber_root_position = FreeAndReset(c3.fiber_root_position)]
              ELSE c3
      c5 == IF HAIR_EXPORT_FIBER_VERTEX_COUNTS \in data
              THEN [c4 EXCEPT !.fiber_numverts = FreeAndReset(c4.fiber_numverts)]
              ELSE c4
      f == FirstFault(<<
             IF HAIR_EXPORT_FIBER_CURVES \in data
               THEN FreeFault(c.fiber_curves) ELSE "none",
             IF HAIR_EXPORT_FIBER_VERTICES \in data
               THEN FirstFault(<< FreeFault(c.fiber_verts),
                                  FreeFault(c.fiber_tangents),
                                  FreeFault(c.fiber_normals) >>)
               ELSE "none",
             IF HAIR_EXPORT_FIBER_ROOT_POSITIONS \in data
               THEN FreeFault(c.fiber_root_position) ELSE "none",
             IF HAIR_EXPORT_FIBER_VERTEX_COUNTS \in data
               THEN FreeFault(c.fiber_numverts) ELSE "none" >>)
  IN [c |-> c5, f |-> f]

\* Invalidate everything
BKE_hair_export_cache_clear(c) ==
  BKE_hair_export_cache_invalidate(c, HAIR_EXPORT_ALL)

\* Free the given export cache: every buffer whose pointer is not NULL is
\* handed to MEM_freeN; the follicles are not. Returns [f: fault].
BKE_hair_export_cache_free(c) ==
  [f |-> FirstFault(<< FreeFault(c.fiber_numverts),
                       FreeFault(c.fiber_curves),
                       FreeFault(c.fiber_verts),
                       FreeFault(c.fiber_tangents),
                       FreeFault(c.fiber_normals),
                       FreeFault(c.fiber_root_position) >>)]

\* ---- geometry sets and their components ----

Holders == 1 .. MaxHolders

\* Enough objects for every holder to have a set of its own with two
\* components, and for one operation to allocate what it needs.
MaxSets == MaxHolders + 1
MaxComps == 2 * MaxHolders + 2
MaxData == 2 * MaxHolders + 4

SetIds == 1 .. MaxSets
CompIds == 1 .. MaxComps
DataIds == 1 .. MaxData

\* GeometryComponentType
ComponentTypes == {"Mesh", "PointCloud"}

\* A mesh that belongs to the caller (transfer_ownership == false).
ExternalMesh == MaxData

NoComponents == [t \in ComponentTypes |-> 0]

DeadSet == [alive |-> FALSE, users |-> 0, components |-> NoComponents]

DeadComponent == [alive |-> FALSE, users |-> 0, data |-> 0, owned |-> FALSE]

\* new GeometrySet(): one user, no component
NewSet == [alive |-> TRUE, users |-> 1, components |-> NoComponents]

\* new MeshComponent() / new PointCloudComponent(): one user, no data
NewComponent == [alive |-> TRUE, users |-> 1, data |-> 0, owned |-> FALSE]

\* was: what the pointer of the holder referred to when the operation began;
\* had_mesh: whether the node found a mesh in its input
NoOp ==
  [name |-> "none", by |-> 0, density |-> 0, was |-> "none", had_mesh |-> FALSE,
   type |-> "none", data |-> 0]

\* sets, comps and data are the heap; data[d] tells whether mesh or point
\* cloud d is allocated and edited[d] whether it was modified in place since
\* it was made; ptr[h] is the GeometrySetPtr of holder h (0: null); asserted
\* tells whether a BLI_assert(is_mutable()) failed in the latest operation;
\* op names the latest operation.
NoGeometry ==
  [ sets |-> [s \in SetIds |-> DeadSet],
    comps |-> [c \in CompIds |-> DeadComponent],
    data |-> [d \in DataIds |-> d = ExternalMesh],
    edited |-> [d \in DataIds |-> FALSE],
    ptr |-> [h \in Holders |-> 0],
    asserted |-> FALSE,
    op |-> NoOp ]

Smallest(S) == CHOOSE x \in S : \A y \in S : x <= y

FreeSets(g) == { s \in SetIds : ~g.sets[s].alive }
FreeComps(g) == { c \in CompIds : ~g.comps[c].alive }
FreeData(g) == { d \in DataIds : ~g.data[d] }

\* seq with x at its end, unless x is the null pointer or already in seq
AppendNew(seq, x) ==
  IF x = 0 \/ (\E i \in 1 .. Len(seq) : seq[i] = x) THEN seq
  ELSE Append(seq, x)

\* seq followed by the members of S that are not in it, in ascending order
RECURSIVE InOrder(_, _)
InOrder(seq, S) ==
  IF S = {} THEN seq
  ELSE LET x == Smallest(S) IN InOrder(AppendNew(seq, x), S \ {x})

\* The place of object x in seq: its address once the heap is compacted.
Place(seq, x) == IF x = 0 THEN 0 ELSE CHOOSE i \in 1 .. Len(seq) : seq[i] = x

\* The sets the pointers of holders 1 .. h refer to, in that order.
RECURSIVE SetsReached(_, _)
SetsReached(g, h) ==
  IF h = 0 THEN << >> ELSE AppendNew(SetsReached(g, h - 1), g.ptr[h])

SetOrder(g) ==
  InOrder(SetsReached(g, MaxHolders), { s \in SetIds : g.sets[s].alive })

\* The components of the first i sets of so, in that order.
RECURSIVE CompsReached(_, _, _)
CompsReached(g, so, i) ==
  IF i = 0 THEN << >>
  ELSE AppendNew(AppendNew(CompsReached(g, so, i - 1),
                           g.sets[so[i]].components["Mesh"]),
                 g.sets[so[i]].components["PointCloud"])

CompOrder(g) ==
  LET so == SetOrder(g)
  IN InOrder(CompsReached(g, so, Len(so)),
             { c \in CompIds : g.comps[c].alive })

\* The data of the first i components of co, in that order; the mesh of the
\* caller keeps its address.
RECURSIVE DataReached(_, _, _)
DataReached(g, co, i) ==
  IF i = 0 THEN << >>
  ELSE AppendNew(DataReached(g, co, i - 1),
                 IF g.comps[co[i]].data = ExternalMesh
                   THEN 0 ELSE g.comps[co[i]].data)

DataOrder(g) ==
  LET co == CompOrder(g)
  IN InOrder(DataReached(g, co, Len(co)),
             { d \in DataIds \ {ExternalMesh} : g.data[d] })

\* The addresses of a heap carry no meaning.  Compact(g) is g with its
\* objects moved to the lowest addresses, in the order in which the holders
\* reach them: every pointer is renamed with its object, nothing else
\* changes.
Compact(g) ==
  LET so == SetOrder(g)
      co == CompOrder(g)
      do == DataOrder(g)
      NewData(d) == IF d = ExternalMesh THEN d ELSE Place(do, d)
  IN [ g EXCEPT
         !.sets = [s \in SetIds |->
                     IF s <= Len(so)
                       THEN [g.sets[so[s]] EXCEPT
                               !.components =
                                 [t \in ComponentTypes |->
                                    Place(co, g.sets[so[s]].components[t])]]
                       ELSE DeadSet],
         !.comps = [c \in CompIds |->
                      IF c <= Len(co)
                        THEN [g.comps[co[c]] EXCEPT !.data = NewData(@)]
                        ELSE DeadComponent],
         !.data = [d \in DataIds |->
                     IF d = ExternalMesh THEN TRUE
                     ELSE d <= Len(do) /\ g.data[do[d]]],
         !.edited = [d \in DataIds |->
                       IF d = ExternalMesh THEN g.edited[d]
                       ELSE d <= Len(do) /\ g.edited[do[d]]],
         !.ptr = [h \in Holders |-> Place(so, g.ptr[h])] ]

\* BLI_assert(this->is_mutable()) is compiled out: the call goes on, the
\* failed assertion is recorded.
AssertMutable(g, users) ==
  IF users <= 1 THEN g ELSE [g EXCEPT !.asserted = TRUE]

BKE_id_free(g, d) == [g EXCEPT !.data[d] = FALSE, !.edited[d] = FALSE]

GeometryComponent_is_mutable(g, c) == g.comps[c].users <= 1

GeometrySet_is_mutable(g, s) == g.sets[s].users <= 1

\* A variant that frees the data whether the component owns it or not.
ClearFreeingUnowned(g, c) ==
  LET g1 == AssertMutable(g, g.comps[c].users)
      d == g1.comps[c].data
  IN IF d # 0 THEN [BKE_id_free(g1, d) EXCEPT !.comps[c].data = 0] ELSE g1

\* MeshComponent::clear / PointCloudComponent::clear
Component_clear(g, c) ==
  LET g1 == AssertMutable(g, g.comps[c].users)
      d == g1.comps[c].data
  IN IF d # 0
       THEN [(IF g1.comps[c].owned THEN BKE_id_free(g1, d) ELSE g1)
               EXCEPT !.comps[c].data = 0]
       ELSE g1

\* MeshComponent::replace / PointCloudComponent::replace
Component_replace(g, c, d, transfer_ownership) ==
  LET g1 == Component_clear(AssertMutable(g, g.comps[c].users), c)
  IN [g1 EXCEPT !.comps[c].data = d, !.comps[c].owned = transfer_ownership]

\* MeshComponent::release / PointCloudComponent::release: [g: the heap
\* after the call, data: the mesh or point cloud returned]
Component_release(g, c) ==
  [g |-> [AssertMutable(g, g.comps[c].users) EXCEPT !.comps[c].data = 0],
   data |-> g.comps[c].data]

\* MeshComponent::copy / PointCloudComponent::copy: [g: the heap after the
\* call, c: the new component]; BKE_mesh_copy_for_eval and
\* BKE_pointcloud_copy give a new object with the contents of the old one
Component_copy(g, c) ==
  LET n == Smallest(FreeComps(g))
  IN IF g.comps[c].data # 0
       THEN LET nd == Smallest(FreeData(g))
            IN [g |-> [g EXCEPT !.comps[n] = [NewComponent EXCEPT
                                                !.data = nd, !.owned = TRUE],
                                !.data[nd] = TRUE,
                                !.edited[nd] = g.edited[g.comps[c].data]],
                c |-> n]
       ELSE [g |-> [g EXCEPT !.comps[n] = NewComponent], c |-> n]

GeometryComponent_user_add(g, c) == [g EXCEPT !.comps[c].users = @ + 1]

\* delete this runs the destructor, which clears the component
GeometryComponent_user_remove(g, c) ==
  LET new_users == g.comps[c].users - 1
      g1 == [g EXCEPT !.comps[c].users = new_users]
  IN IF new_users = 0
       THEN [Component_clear(g1, c) EXCEPT !.comps[c] = DeadComponent]
       ELSE g1

\* GeometrySet(const GeometrySet &other): the components are shared with the
\* original; [g: the heap after the call, s: the new set]
GeometrySet_copy(g, other) ==
  LET n == Smallest(FreeSets(g))
      shared == { g.sets[other].components[t] : t \in ComponentTypes } \ {0}
  IN [g |-> [g EXCEPT
               !.sets[n] = [NewSet EXCEPT !.components = g.sets[other].components],
               !.comps = [c \in CompIds |->
                            IF c \in shared
                              THEN [g.comps[c] EXCEPT !.users = @ + 1]
                              ELSE g.comps[c]]],
      s |-> n]

GeometrySet_user_add(g, s) == [g EXCEPT !.sets[s].users = @ + 1]

\* The component pointer of one type gives up its user.
ReleaseComponent(g, s, t) ==
  IF g.sets[s].components[t] = 0 THEN g
  ELSE GeometryComponent_user_remove(g, g.sets[s].components[t])

\* delete this destroys components_, whose pointers give up their users
GeometrySet_user_remove(g, s) ==
  LET new_users == g.sets[s].users - 1
      g1 == [g EXCEPT !.sets[s].users = new_users]
  IN IF new_users = 0
       THEN [ReleaseComponent(ReleaseComponent(g1, s, "Mesh"), s, "PointCloud")
               EXCEPT !.sets[s] = DeadSet]
       ELSE g1

\* [g: the heap after the call, c: the component returned]
get_component_for_write(g, s, t) ==
  LET g1 == AssertMutable(g, g.sets[s].users)
      c == g1.sets[s].components[t]
  IN IF c = 0
       THEN LET n == Smallest(FreeComps(g1))
            IN [g |-> [g1 EXCEPT !.comps[n] = NewComponent,
                                 !.sets[s].components[t] = n],
                c |-> n]
     ELSE IF GeometryComponent_is_mutable(g1, c)
       THEN [g |-> g1, c |-> c]
     ELSE LET cp == Component_copy(g1, c)
              g2 == GeometryComponent_user_remove(cp.g, c)
          IN [g |-> [g2 EXCEPT !.sets[s].components[t] = cp.c], c |-> cp.c]

get_component_for_read(g, s, t) == g.sets[s].components[t]

\* 0 is the null pointer
get_mesh_for_read(g, s) ==
  LET c == get_component_for_read(g, s, "Mesh")
  IN IF c = 0 THEN 0 ELSE g.comps[c].data

has_mesh(g, s) ==
  LET c == get_component_for_read(g, s, "Mesh")
  IN c # 0 /\ g.comps[c].data # 0

get_pointcloud_for_read(g, s) ==
  LET c == get_component_for_read(g, s, "PointCloud")
  IN IF c = 0 THEN 0 ELSE g.comps[c].data

has_pointcloud(g, s) ==
  LET c == get_component_for_read(g, s, "PointCloud")
  IN c # 0 /\ g.comps[c].data # 0

replace_mesh(g, s, mesh, transfer_ownership) ==
  LET w == get_component_for_write(g, s, "Mesh")
  IN Component_replace(w.g, w.c, mesh, transfer_ownership)

replace_pointcloud(g, s, pointcloud, transfer_ownership) ==
  LET w == get_component_for_write(g, s, "PointCloud")
  IN Component_replace(w.g, w.c, pointcloud, transfer_ownership)

\* MeshComponent::get_for_write / PointCloudComponent::get_for_write:
\* [g: the heap after the call, data: the mesh or point cloud returned]
Component_get_for_write(g, c) ==
  [g |-> AssertMutable(g, g.comps[c].users), data |-> g.comps[c].data]

get_mesh_for_write(g, s) ==
  LET w == get_component_for_write(g, s, "Mesh")
  IN Component_get_for_write(w.g, w.c)

get_pointcloud_for_write(g, s) ==
  LET w == get_component_for_write(g, s, "PointCloud")
  IN Component_get_for_write(w.g, w.c)

\* [g: the heap after the call, s: the new set]
create_with_mesh(g, mesh, transfer_ownership) ==
  LET n == Smallest(FreeSets(g))
      g1 == [g EXCEPT !.sets[n] = NewSet]
  IN [g |-> replace_mesh(g1, n, mesh, transfer_ownership), s |-> n]

\* A variant that forgets to give up the user of the shared set.
MakeMutableWithoutRemove(g, h) ==
  LET s == g.ptr[h]
  IN IF s = 0
       THEN LET n == Smallest(FreeSets(g))
            IN [g EXCEPT !.sets[n] = NewSet, !.ptr[h] = n]
     ELSE IF GeometrySet_is_mutable(g, s) THEN g
     ELSE LET cp == GeometrySet_copy(g, s)
          IN [cp.g EXCEPT !.ptr[h] = cp.s]

\* geometry_set is the pointer of holder h
make_geometry_set_mutable(g, h) ==
  LET s == g.ptr[h]
  IN IF s = 0
       THEN LET n == Smallest(FreeSets(g))
            IN [g EXCEPT !.sets[n] = NewSet, !.ptr[h] = n]
     ELSE IF GeometrySet_is_mutable(g, s) THEN g
     ELSE LET cp == GeometrySet_copy(g, s)
              g2 == GeometrySet_user_remove(cp.g, s)
          IN [g2 EXCEPT !.ptr[h] = cp.s]

\* A variant that leaves the point cloud of the input in place.
DistributeKeepingPointCloud(g, h, density) ==
  LET s == g.ptr[h]
  IN IF s = 0 \/ ~has_mesh(g, s) THEN g
     ELSE IF density <= 0
       THEN replace_mesh(g, s, 0, TRUE)
     ELSE LET pointcloud == Smallest(FreeData(g))
              g1 == [g EXCEPT !.data[pointcloud] = TRUE]
              g2 == make_geometry_set_mutable(g1, h)
              s2 == g2.ptr[h]
          IN replace_pointcloud(replace_mesh(g2, s2, 0, TRUE),
                                s2, pointcloud, TRUE)

\* The node run on the geometry of holder h, which also receives the
\* output; the points themselves are not followed.
geo_point_distribute_exec(g, h, density) ==
  LET s == g.ptr[h]
  IN IF s = 0 \/ ~has_mesh(g, s) THEN g
     ELSE IF density <= 0
       THEN replace_pointcloud(replace_mesh(g, s, 0, TRUE), s, 0, TRUE)
     ELSE LET pointcloud == Smallest(FreeData(g))
              g1 == [g EXCEPT !.data[pointcloud] = TRUE]
              g2 == make_geometry_set_mutable(g1, h)
              s2 == g2.ptr[h]
          IN replace_pointcloud(replace_mesh(g2, s2, 0, TRUE),
                                s2, pointcloud, TRUE)

\* ---- one container shared by threads ----

Threads == 1 .. MaxThreads

\* users is the atomic counter, deleted the number of times delete this ran,
\* refs[t] the references thread t holds, pc[t] where thread t is inside
\* user_remove ("idle": outside, "test": past the fetch_sub), new_users[t]
\* its local variable, misuse whether the counter of a deleted container was
\* touched, and op the latest call: its name, its thread and, for
\* is_mutable, what it returned.
NoUsers ==
  [ users |-> 1,
    deleted |-> 0,
    refs |-> [t \in Threads |-> IF t = 1 THEN 1 ELSE 0],
    pc |-> [t \in Threads |-> "idle"],
    new_users |-> [t \in Threads |-> 0],
    misuse |-> FALSE,
    op |-> [name |-> "none", by |-> 0, mutable |-> FALSE] ]

\* A variant that deletes on the last but one user already.
DeletesAtOneUser(new_users) == new_users <= 1

\* if (new_users == 0) delete this;
DeletesContainer(new_users) == new_users = 0

\* ---- subdivision of a curve ----

\* A position is followed along one axis and stands for the float
\* co / Unit: every halving of the levels 0 .. MaxLevel - 1 is exact.
Unit == 4 ^ MaxLevel

Coords == { c * Unit : c \in 0 .. MaxCoord }

\* One call of hair_curve_subdivide: numverts and verts are the curve,
\* r_verts[j] is r_verts[j].co, the part of the cache's vertex buffer set
\* aside for the curve; written holds the indices of r_verts that were
\* assigned, d is the loop counter and ret the value returned; pc is "idle"
\* (no call), "start", "levels" (at the head of the loop over d), "done" or
\* "fault" (undefined behaviour).
NoSubdivision ==
  [ numverts |-> 0, verts |-> << >>, subdiv |-> 0, rootpos |-> 0,
    r_verts |-> << >>, written |-> {}, d |-> 0, ret |-> 0,
    pc |-> "idle", fault |-> "none" ]

\* The call the cache update makes (line 709): the buffer holds
\* hair_get_strand_subdiv_length vertices for the curve, none assigned yet.
SubdivisionCall(verts, subdiv, rootpos) ==
  [ NoSubdivision EXCEPT
      !.numverts = Len(verts), !.verts = verts, !.subdiv = subdiv,
      !.rootpos = rootpos,
      !.r_verts = [j \in 0 .. hair_get_strand_subdiv_length(Len(verts), subdiv) - 1
                     |-> 0],
      !.pc = "start" ]

\* A variant with the operands exchanged.
SwappedDifference(a, b) == b - a

sub_v3_v3v3(a, b) == a - b

add_v3_v3v3(a, b) == a + b

\* mul_v3_fl(r, 0.5f)
Halved(a) == a \div 2

\* A variant with one edge too many.
NumEdgesPlusOne(numverts, d) == Shl(numverts - 1, d) + 1

\* const int num_edges = (curve->numverts - 1) << d;
NumEdges(numverts, d) == Shl(numverts - 1, d)

\* The indices the loop "Calculate edge points" assigns.
EdgePoints(num_edges, step, hstep) ==
  { k * step + hstep : k \in 0 .. num_edges - 1 }

\* A variant that leaves the original points where they are.
NoOriginalPoints(num_edges, step) == {}

\* The indices the loop "Move original points" assigns.
OriginalPoints(num_edges, step) == { k * step : k \in 1 .. num_edges - 1 }

SubdivideFault(s, f) == [s EXCEPT !.pc = "fault", !.fault = f]

\* The first block: the control points go to every step-th vertex, moved
\* by the offset.
PlaceControlPoints(s) ==
  LET step == Shl(1, s.subdiv)
      offset == sub_v3_v3v3(s.rootpos, s.verts[1])
      dst == { i * step : i \in 0 .. s.numverts - 1 }
  IN IF ~(dst \subseteq DOMAIN s.r_verts)
       THEN SubdivideFault(s, "out_of_bounds")
       ELSE [s EXCEPT
               !.r_verts = [j \in DOMAIN s.r_verts |->
                              IF j \in dst
                                THEN add_v3_v3v3(s.verts[(j \div step) + 1], offset)
                                ELSE s.r_verts[j]],
               !.written = @ \cup dst,
               !.d = 0,
               !.pc = "levels"]

\* One pass of the loop over d: the edge points, then the original points.
\* No loop reads a vertex that the same loop assigns.
SubdivideLevel(s) ==
  LET num_edges == NumEdges(s.numverts, s.d)
      hstep == Shl(1, s.subdiv - s.d - 1)
      step == Shl(1, s.subdiv - s.d)
      edge == EdgePoints(num_edges, step, hstep)
      edge_read == UNION { {j - hstep, j - hstep + step} : j \in edge }
      r1 == [j \in DOMAIN s.r_verts |->
               IF j \in edge
                 THEN Halved(add_v3_v3v3(s.r_verts[j - hstep],
                                         s.r_verts[j - hstep + step]))
                 ELSE s.r_verts[j]]
      written1 == s.written \cup edge
      orig == OriginalPoints(num_edges, step)
      orig_read == UNION { {j - hstep, j + hstep} : j \in orig }
      r2 == [j \in DOMAIN s.r_verts |->
               IF j \in orig
                 THEN Halved(add_v3_v3v3(r1[j - hstep], r1[j + hstep]))
                 ELSE r1[j]]
  IN IF ~((edge \cup edge_read \cup orig \cup orig_read) \subseteq DOMAIN s.r_verts)
       THEN SubdivideFault(s, "out_of_bounds")
     ELSE IF ~(edge_read \subseteq s.written /\ orig_read \subseteq written1)
       THEN SubdivideFault(s, "indeterminate_value")
     ELSE [s EXCEPT !.r_verts = r2,
                    !.written = written1 \cup orig,
                    !.d = s.d + 1]

\* const int num_verts = ((curve->numverts - 1) << subdiv) + 1;
SubdivideReturn(s) ==
  [s EXCEPT !.ret = Shl(s.numverts - 1, s.subdiv) + 1, !.pc = "done"]

\* ---- scattering points on a mesh ----

\* Default value of the Density socket.
DefaultDensity == 10

\* No mesh was given to the distributor yet.  hash and next stand for
\* BLI_hash_int and for the step of RandomNumberGenerator: functions fixed
\* for the whole behaviour; rng is the storage of the local looptri_rng,
\* which keeps what the last generator left in it; a run is recorded with
\* the storage it started from, the vector it returned and the point_amount
\* of each triangle.
NoScatter ==
  [ mesh |-> << >>, density |-> 0, hash |-> << >>, next |-> << >>,
    rng |-> 0, runs |-> << >> ]


\* A variant that leaves the generator as the previous triangle left it.
UnseededGenerator(storage, seed) == storage

\* RandomNumberGenerator looptri_rng(looptri_seed)
RandomNumberGenerator(storage, seed) == seed % FUnit

\* fractf of x / FUnit, x >= 0, in units of 1 / FUnit
fractf(x) == x % FUnit

\* A variant that also adds the point when the two are equal.
AddPointOrEqual(add_point_probability, drawn) == add_point_probability >= drawn

\* const bool add_point = add_point_probability > looptri_rng.get_float()
AddPoint(add_point_probability, drawn) == add_point_probability > drawn

\* (int)f of f = x / FUnit, x >= 0
IntOf(x) == x \div FUnit

\* The loop over i < point_amount: each point takes the two floats that
\* get_barycentric_coordinates draws; m = [rng, points, amounts].
RECURSIVE AppendPoints(_, _, _, _)
AppendPoints(m, next, looptri_index, i) ==
  IF i = 0 THEN m
  ELSE LET r1 == next[m.rng + 1]
           r2 == next[r1 + 1]
       IN AppendPoints(
            [m EXCEPT !.rng = r2,
                      !.points = Append(@, [tri |-> looptri_index,
                                            bary |-> <<r1, r2>>])],
            next, looptri_index, i - 1)

\* The loop over the triangles from looptri_index on.
RECURSIVE ScatterFrom(_, _, _)
ScatterFrom(s, m, looptri_index) ==
  IF looptri_index >= Len(s.mesh) THEN m
  ELSE
    LET area == s.mesh[looptri_index + 1]
        looptri_seed == s.hash[looptri_index + 1]
        looptri_rng == RandomNumberGenerator(m.rng, looptri_seed)
        points_amount_fl == area * s.density
        add_point_probability == fractf(points_amount_fl)
        drawn == s.next[looptri_rng + 1]
        add_point == AddPoint(add_point_probability, drawn)
        point_amount == IntOf(points_amount_fl) + (IF add_point THEN 1 ELSE 0)
        m1 == [m EXCEPT !.rng = drawn, !.amounts = Append(@, point_amount)]
    IN ScatterFrom(s, AppendPoints(m1, s.next, looptri_index, point_amount),
                   looptri_index + 1)

\* Returns [rng: what the last generator left, points: the vector returned,
\* amounts: point_amount of each triangle].
scatter_points_from_mesh(s) ==
  ScatterFrom(s, [rng |-> s.rng, points |-> << >>, amounts |-> << >>], 0)

\* ---- baking a cache library ----

\* eCacheLibrary_EvalMode
CACHE_LIBRARY_EVAL_REALTIME == "realtime"
CACHE_LIBRARY_EVAL_RENDER == "render"

\* The particle systems of the objects of the main database.
ParticleSystems == {"psys1", "psys2"}

\* The passes of a job in the order cache_library_bake_start runs them.
Passes == << CACHE_LIBRARY_EVAL_REALTIME, CACHE_LIBRARY_EVAL_RENDER >>

\* CacheLibraryBakeJob and what it works on.  pc is where the job thread
\* is, pass the pass it is in (an index of Passes), stop the flag of the job
\* system, is_break G.is_break, baking the flag CACHE_LIBRARY_BAKING,
\* dupcaches the number of dupli caches allocated and not freed, freed the
\* number of writers freed, evaluated and written the frames evaluated and
\* the samples written so far (pass, frame), observed whether one of the
\* job's tests of cache_library_bake_stop was true.  use_job is the mode of
\* the operator, writer is "uninit" while the field of a job on the stack
\* was not assigned, opened and closed count the archives opened and
\* closed, particle_baking is PTCACHE_BAKING of each particle system, cfra
\* and framelen are scene->r.cfra and scene->r.framelen, found what they
\* were when the operator was called, is_rendering is G.is_rendering,
\* draw_locks what BKE_spacedata_draw_locks was last called with, fault what
\* went wrong.
NoBake ==
  [ pc |-> "idle", eval_mode |-> {}, pass |-> 0, frame |-> 0,
    start_frame |-> 0, end_frame |-> 0,
    stop |-> 0, is_break |-> FALSE, do_update |-> FALSE,
    archive |-> FALSE, writer |-> "null", made |-> 0, freed |-> 0,
    baking |-> FALSE, dupcaches |-> 0,
    evaluated |-> << >>, written |-> << >>, observed |-> FALSE,
    use_job |-> TRUE, opened |-> 0, closed |-> 0,
    particle_baking |-> [p \in ParticleSystems |-> FALSE],
    cfra |-> 0, framelen |-> 1, origfra |-> 0, origframelen |-> 0,
    found |-> [cfra |-> 0, framelen |-> 1],
    is_rendering |-> FALSE, draw_locks |-> FALSE, fault |-> "none" ]

\* The flag PTCACHE_BAKING of every particle system of every object.
cache_library_bake_set_particle_baking(b, baking) ==
  [b EXCEPT !.particle_baking = [p \in ParticleSystems |-> baking]]


cache_library_bake_stop(b) == b.stop # 0 \/ b.is_break

\* A variant of the test at the entry of a pass that never stops.
PassEntryGoesOn(b) == FALSE

\* if (cache_library_bake_stop(data)) return;
PassEntryStops(b) == cache_library_bake_stop(b)

\* The job after the pass it is in: the next pass, or the end of
\* cache_library_bake_start.
AfterPass(b) ==
  IF b.pass < Len(Passes)
    THEN [b EXCEPT !.pc = "pass_entry", !.pass = b.pass + 1]
    ELSE [b EXCEPT !.pc = "finish"]

\* cache_library_bake_start up to the first pass
bake_start_open(b, archive) ==
  LET b1 == [b EXCEPT !.origfra = b.cfra, !.origframelen = b.framelen,
                      !.framelen = 1, !.archive = archive,
                      !.opened = IF archive THEN @ + 1 ELSE @]
  IN IF archive
       THEN [b1 EXCEPT !.is_break = FALSE, !.pc = "pass_entry", !.pass = 1]
       ELSE [b1 EXCEPT !.pc = "finish"]

\* cache_library_bake_do from its entry to the frame loop; writer tells
\* whether PTC_writer_dupligroup / PTC_writer_duplicache gave a writer
bake_do_prepare(b, writer) ==
  IF Passes[b.pass] \notin b.eval_mode THEN AfterPass(b)
  ELSE IF PassEntryStops(b) THEN AfterPass([b EXCEPT !.observed = TRUE])
  ELSE IF ~writer
    \* BKE_dupli_cache_new, then BKE_dupli_cache_free
    THEN AfterPass([b EXCEPT !.writer = "null"])
  ELSE LET b1 == [b EXCEPT !.dupcaches = @ + 1,
                           !.writer = "live", !.made = @ + 1,
                           !.baking = TRUE,
                           !.do_update = TRUE,
                           !.frame = b.start_frame]
       IN IF b1.frame <= b1.end_frame
            THEN [b1 EXCEPT !.pc = "frame_eval"]
            ELSE [b1 EXCEPT !.pc = "cleanup"]

\* A variant of the loop body that sets the flag in the first frame only.
EvaluateBakingFirst(b) ==
  [cache_library_bake_set_particle_baking(b, b.frame = b.start_frame)
     EXCEPT !.cfra = b.frame,
            !.evaluated = Append(@, <<b.pass, b.frame>>),
            !.pc = "frame_write"]

\* The body of the frame loop up to BKE_cache_process_dupli_cache: the
\* particle flags, scene->r.cfra, BKE_scene_update_group_for_newframe and
\* the filling of the dupli cache
bake_do_evaluate(b) ==
  [cache_library_bake_set_particle_baking(b, b.frame # b.start_frame)
     EXCEPT !.cfra = b.frame,
            !.evaluated = Append(@, <<b.pass, b.frame>>),
            !.pc = "frame_write"]

\* PTC_write_sample and cache_library_bake_set_progress
bake_do_write(b) ==
  [b EXCEPT !.written = Append(@, <<b.pass, b.frame>>),
            !.do_update = TRUE,
            !.pc = "frame_check"]

\* if (cache_library_bake_stop(data)) break; and the step of the for loop
bake_do_check(b) ==
  IF cache_library_bake_stop(b)
    THEN [b EXCEPT !.observed = TRUE, !.pc = "cleanup"]
  ELSE IF b.frame + 1 <= b.end_frame
    THEN [b EXCEPT !.frame = b.frame + 1, !.pc = "frame_eval"]
  ELSE [b EXCEPT !.frame = b.frame + 1, !.pc = "cleanup"]

\* === cleanup ===
bake_do_cleanup(b) ==
  AfterPass(
    [cache_library_bake_set_particle_baking(b, FALSE)
       EXCEPT !.writer = "null",
              !.freed = IF b.writer # "null" THEN @ + 1 ELSE @,
              !.baking = FALSE,
              !.dupcaches = @ - 1])

\* *do_update = true; *stop = 0;
bake_start_finish(b) ==
  [b EXCEPT !.do_update = TRUE, !.stop = 0, !.pc = "done"]

\* cache_library_bake_exec up to the start of the job: the job is
\* allocated with MEM_callocN when use_job, and is a variable on the stack
\* otherwise, which cache_library_bake_init fills in part.
cache_library_bake_init(b, use_job) ==
  [b EXCEPT !.use_job = use_job,
            !.writer = IF use_job THEN "null" ELSE "uninit",
            !.is_rendering = TRUE, !.draw_locks = TRUE,
            !.pc = "idle"]

\* cache_library_bake_end; writer is what the test of data->writer reads
\* when the field was never assigned: "null" or "wild".
cache_library_bake_end(b, writer) ==
  LET b1 == [b EXCEPT !.is_rendering = FALSE, !.draw_locks = FALSE]
      w == IF b.writer = "uninit" THEN writer ELSE b.writer
  IN IF w = "wild"
       \* PTC_writer_free of a pointer that is no writer
       THEN [b1 EXCEPT !.fault = "wild_free", !.pc = "crashed"]
     ELSE [b1 EXCEPT !.freed = IF w = "live" THEN @ + 1 ELSE @,
                     !.closed = IF b.archive THEN @ + 1 ELSE @,
                     !.cfra = b.origfra, !.framelen = b.origframelen,
                     !.pc = "ended"]

\* ---- the archive operators ----

\* The archives the operators have open and the last call: readers and
\* writers count the archives opened and not closed, op is the operator
\* called last, ret what it returned, opened and closed the archives it
\* opened and closed, sliced the frame range given to PTC_archive_slice,
\* info whether cachelib->archive_info exists, filled whether the last call
\* filled it, bytes whether it computed the sizes, printed whether it wrote
\* the archive's description to stdout, report the error it reported.
NoArchives ==
  [ readers |-> 0, writers |-> 0, op |-> "none", ret |-> "none",
    opened |-> 0, closed |-> 0, sliced |-> << >>,
    info |-> FALSE, filled |-> FALSE, bytes |-> FALSE, printed |-> FALSE,
    report |-> "none" ]

\* The state at the start of an operator.
OperatorCalled(a, name) ==
  [a EXCEPT !.op = name, !.ret = "none", !.opened = 0, !.closed = 0,
            !.sliced = << >>, !.filled = FALSE, !.bytes = FALSE,
            !.printed = FALSE, !.report = "none"]

\* BKE_reportf(op->reports, RPT_ERROR, ...); return OPERATOR_CANCELLED;
Cancelled(a, report) == [a EXCEPT !.report = report, !.ret = "CANCELLED"]

\* PTC_open_reader_archive: archive tells whether the file could be opened
PTC_open_reader_archive(a, archive) ==
  IF archive THEN [a EXCEPT !.readers = @ + 1, !.opened = @ + 1] ELSE a

\* PTC_open_writer_archive
PTC_open_writer_archive(a, archive) ==
  IF archive THEN [a EXCEPT !.writers = @ + 1, !.opened = @ + 1] ELSE a

PTC_close_reader_archive(a) ==
  [a EXCEPT !.readers = @ - 1, !.closed = @ + 1]

PTC_close_writer_archive(a) ==
  [a EXCEPT !.writers = @ - 1, !.closed = @ + 1]

\* cache_library_archive_slice_exec; the file paths are "" or a name,
\* input_archive and output_archive tell whether the files could be opened
cache_library_archive_slice_exec(a, input_filepath, output_filepath, input_archive, output_archive, start_frame, end_frame) ==
  LET a0 == OperatorCalled(a, "slice")
      a1 == PTC_open_reader_archive(a0, input_archive)
      a2 == PTC_open_writer_archive(a1, output_archive)
  IN IF input_filepath = "" THEN Cancelled(a0, "none")
     ELSE IF output_filepath = "" THEN Cancelled(a0, "none")
     ELSE IF ~input_archive THEN Cancelled(a1, "Cannot open cache file")
     ELSE IF ~output_archive THEN Cancelled(a2, "Cannot write to cache file")
     ELSE [PTC_close_writer_archive(PTC_close_reader_archive(a2))
             EXCEPT !.sliced = <<start_frame, end_frame>>,
                    !.ret = "FINISHED"]

\* cache_library_archive_info_exec
cache_library_archive_info_exec(a, filepath, archive, use_cache_info, calc_bytes_size, use_stdout) ==
  LET a0 == OperatorCalled(a, "info")
      a1 == PTC_open_reader_archive(a0, archive)
      a2 == IF use_cache_info
              THEN [a1 EXCEPT !.info = TRUE, !.filled = TRUE,
                              !.bytes = calc_bytes_size]
              ELSE a1
      a3 == [a2 EXCEPT !.printed = use_stdout]
  IN IF filepath = "" THEN Cancelled(a0, "none")
     ELSE IF ~archive THEN Cancelled(a1, "Cannot open cache file")
     ELSE [PTC_close_reader_archive(a3) EXCEPT !.ret = "FINISHED"]

\* ---- two hair systems and the allocations they own ----

Systems == 1 .. 2

\* Enough allocations for two hair systems (the HairSystem, its pattern and
\* three arrays each) and for the one a reallocation adds.
AllocIds == 1 .. 11

NoAlloc == [live |-> FALSE, d |-> << >>]

\* A HairSystem that does not exist; pointers are allocation ids, 0 is NULL.
NoSystem ==
  [ self |-> 0, pattern |-> 0, follicles |-> 0, num_follicles |-> 0,
    curves |-> 0, totcurves |-> 0, verts |-> 0, totverts |-> 0,
    draw_batch_cache |-> FALSE, draw_texture_cache |-> FALSE ]

NoSystems ==
  [ heap |-> [a \in AllocIds |-> NoAlloc],
    sys |-> [k \in Systems |-> NoSystem],
    fault |-> "none",
    calls |-> 0,
    op |-> [name |-> "none", by |-> 0] ]

Resting ==
  sct = NoScatter /\ bake = NoBake /\ cpy = NoSystems /\ arc = NoArchives

\* MEM_mallocN / MEM_callocN: [c: the state after the call, a: the block]
MEM_allocN(c, d) ==
  LET a == Smallest({ x \in AllocIds : ~c.heap[x].live })
  IN [c |-> [c EXCEPT !.heap[a] = [live |-> TRUE, d |-> d]], a |-> a]

\* MEM_freeN of a block that was released already is a fault.
MEM_freeN(c, a) ==
  IF c.fault # "none" THEN c
  ELSE IF ~c.heap[a].live THEN [c EXCEPT !.fault = "double_free"]
  ELSE [c EXCEPT !.heap[a] = NoAlloc]

\* MEM_dupallocN: NULL gives NULL, a released block cannot be read
MEM_dupallocN(c, a) ==
  IF a = 0 THEN [c |-> c, a |-> 0]
  ELSE IF ~c.heap[a].live
    THEN [c |-> [c EXCEPT !.fault = "use_after_free"], a |-> 0]
  ELSE MEM_allocN(c, c.heap[a].d)

\* MEM_reallocN to n elements: a new block with the leading elements of the
\* old one, which is released; the new elements hold x
MEM_reallocN(c, a, n, x) ==
  IF a # 0 /\ ~c.heap[a].live
    THEN [c |-> [c EXCEPT !.fault = "use_after_free"], a |-> 0]
  ELSE LET old == IF a = 0 THEN << >> ELSE c.heap[a].d
           m == MEM_allocN(c, [i \in 1 .. n |->
                                 IF i <= Len(old) THEN old[i] ELSE x])
       IN [c |-> IF a = 0 THEN m.c ELSE MEM_freeN(m.c, a), a |-> m.a]

\* BKE_hair_new for system k
hair_new(c, k) ==
  LET self == MEM_allocN(c, << >>)
      pattern == MEM_allocN(self.c, << >>)
  IN [pattern.c EXCEPT !.sys[k] = [NoSystem EXCEPT !.self = self.a,
                                                    !.pattern = pattern.a]]

\* BKE_hair_copy: system to becomes the copy of system from
hair_copy(c, from, to) ==
  LET h == c.sys[from]
      nhsys == MEM_allocN(c, << >>)
      pattern == MEM_dupallocN(nhsys.c, h.pattern)
      follicles == IF h.pattern # 0
                     THEN MEM_dupallocN(pattern.c, h.follicles)
                     ELSE [c |-> pattern.c, a |-> h.follicles]
      curves == MEM_dupallocN(follicles.c, h.curves)
      verts == MEM_dupallocN(curves.c, h.verts)
  IN [verts.c EXCEPT !.sys[to] =
        [h EXCEPT !.self = nhsys.a, !.pattern = pattern.a,
                  !.follicles = follicles.a, !.curves = curves.a,
                  !.verts = verts.a,
                  !.draw_batch_cache = FALSE, !.draw_texture_cache = FALSE]]

FreeIfSet(c, a) == IF a = 0 THEN c ELSE MEM_freeN(c, a)

\* BKE_hair_free
hair_free(c, k) ==
  LET h == c.sys[k]
      c1 == FreeIfSet(FreeIfSet(c, h.curves), h.verts)
      c2 == IF h.pattern # 0
              THEN MEM_freeN(FreeIfSet(c1, h.follicles), h.pattern)
              ELSE c1
  IN [MEM_freeN(c2, h.self) EXCEPT !.sys[k] = NoSystem]

\* BKE_hair_generate_follicles_ex
hair_generate_follicles(c, k, count, generated) ==
  LET h == c.sys[k]
      c1 == FreeIfSet(c, h.follicles)
      m == MEM_allocN(c1, [i \in 1 .. count |-> 0])
  IN [m.c EXCEPT !.sys[k].follicles = m.a,
                 !.sys[k].num_follicles = generated]

\* BKE_hair_fiber_curves_begin
hair_fiber_curves_begin(c, k, totcurves) ==
  IF totcurves = c.sys[k].totcurves THEN c
  ELSE LET m == MEM_reallocN(c, c.sys[k].curves, totcurves, Indeterminate)
       IN [m.c EXCEPT !.sys[k].curves = m.a, !.sys[k].totcurves = totcurves]

\* BKE_hair_set_fiber_curve
hair_set_fiber_curve(c, k, index, numverts) ==
  LET a == c.sys[k].curves
  IN IF a = 0 THEN [c EXCEPT !.fault = "null_deref"]
     ELSE IF ~c.heap[a].live THEN [c EXCEPT !.fault = "use_after_free"]
     ELSE IF index >= Len(c.heap[a].d) THEN [c EXCEPT !.fault = "out_of_bounds"]
     ELSE [c EXCEPT !.heap[a].d = [i \in 1 .. Len(@) |->
                                     IF i = index + 1 THEN numverts ELSE @[i]]]

\* BKE_hair_fiber_curves_end, the curves written
hair_fiber_curves_end(c, k) ==
  LET h == c.sys[k]
      totverts == IF h.totcurves = 0 THEN 0 ELSE SumSeq(c.heap[h.curves].d)
  IN IF c.fault # "none" THEN c
     ELSE IF h.totcurves > 0 /\ h.curves = 0 THEN [c EXCEPT !.fault = "null_deref"]
     ELSE IF totverts = h.totverts THEN c
     ELSE LET m == MEM_reallocN(c, h.verts, totverts, 0)
          IN [m.c EXCEPT !.sys[k].verts = m.a, !.sys[k].totverts = totverts]

\* BKE_hair_set_fiber_curves: each array is released and then handed to
\* MEM_dupallocN
hair_set_fiber_curves(c, k, totcurves, totverts) ==
  LET h == c.sys[k]
      c1 == FreeIfSet(c, h.curves)
      curves == MEM_dupallocN(c1, h.curves)
      c2 == FreeIfSet(curves.c, h.verts)
      verts == MEM_dupallocN(c2, h.verts)
  IN [verts.c EXCEPT !.sys[k].curves = curves.a,
                     !.sys[k].totcurves = totcurves,
                     !.sys[k].verts = verts.a,
                     !.sys[k].totverts = totverts]

\* BKE_hair_clear_fiber_curves
hair_clear_fiber_curves(c, k) ==
  LET h == c.sys[k]
      c1 == FreeIfSet(FreeIfSet(c, h.curves), h.verts)
  IN [c1 EXCEPT !.sys[k].curves = 0, !.sys[k].totcurves = 0,
                !.sys[k].verts = 0, !.sys[k].totverts = 0]

\* ---- the state machine ----

\* last describes the latest call: op its name, arg the flags given to a
\* cache call, ret the flags the update returned, order the categories the
\* update recomputed (in order), bret what the binder returned and dirty
\* the binding flag it found at entry, count the number of follicles asked
\* of the generator.
NoCall ==
  [op |-> "none", arg |-> {}, ret |-> {}, order |-> << >>,
   bret |-> FALSE, dirty |-> FALSE, count |-> 0, subdiv |-> 0,
   vectors |-> << >>]

\* The flag sets callers pass: each category alone, and all of them.
Requests == { {x} : x \in HAIR_EXPORT_ALL } \cup { HAIR_EXPORT_ALL }

\* The process has run into undefined behaviour; its memory is not followed.
Crashed(f, call) ==
  /\ fault' = f
  /\ hsys' = BKE_hair_new
  /\ cache' = BKE_hair_export_cache_new
  /\ last' = call

Crash(op, f) == Crashed(f, [NoCall EXCEPT !.op = op])

HsysCall(op, res) ==
  IF res.f # "none" THEN Crash(op, res.f)
  ELSE /\ hsys' = res.h
       /\ last' = [NoCall EXCEPT !.op = op]
       /\ UNCHANGED <<cache, fault>>

GenerateFollicles ==
  /\ fault = "none"
  /\ UNCHANGED geom
  /\ \E count \in 0 .. MaxFollicles :
       \E generated \in 0 .. count :
         \E samples \in [1 .. generated -> Samples] :
           LET res == BKE_hair_generate_follicles(hsys, count, generated, samples)
           IN IF res.f # "none" THEN Crash("generate_follicles", res.f)
              ELSE /\ hsys' = res.h
                   \* MEM_freeN(pattern->follicles) releases what the
                   \* cache's borrowed pointer refers to
                   /\ cache' = [cache EXCEPT !.follicles =
                                   IF @ = "live" THEN "freed" ELSE @]
                   /\ last' = [NoCall EXCEPT !.op = "generate_follicles",
                                             !.count = count]
                   /\ UNCHANGED fault

FiberCurvesBegin ==
  /\ fault = "none"
  /\ UNCHANGED geom
  /\ \E totcurves \in 0 .. MaxCurves :
       HsysCall("fiber_curves_begin", BKE_hair_fiber_curves_begin(hsys, totcurves))

SetFiberCurve ==
  /\ fault = "none"
  /\ UNCHANGED geom
  /\ \E index \in 0 .. MaxCurves, numverts \in 1 .. MaxNumVerts :
       /\ index <= hsys.totcurves
       /\ HsysCall("set_fiber_curve", BKE_hair_set_fiber_curve(hsys, index, numverts))

\* The callers give the indices BLI_assert(index <= totverts) lets pass.
SetFiberVertex ==
  /\ fault = "none"
  /\ UNCHANGED geom
  /\ \E index \in 0 .. MaxCurves * MaxNumVerts :
       /\ index <= hsys.totverts
       /\ HsysCall("set_fiber_vertex", BKE_hair_set_fiber_vertex(hsys, index))

FiberCurvesEnd ==
  /\ fault = "none"
  /\ UNCHANGED geom
  /\ HsysCall("fiber_curves_end", BKE_hair_fiber_curves_end(hsys))

SetFiberCurves ==
  /\ fault = "none"
  /\ UNCHANGED geom
  /\ \E totcurves \in 0 .. MaxCurves :
       \E totverts \in {totcurves, totcurves * MaxNumVerts} :
         HsysCall("set_fiber_curves",
                  BKE_hair_set_fiber_curves(hsys, totcurves, totverts))

ClearFiberCurves ==
  /\ fault = "none"
  /\ UNCHANGED geom
  /\ HsysCall("clear_fiber_curves", BKE_hair_clear_fiber_curves(hsys))

BindFollicles ==
  /\ fault = "none"
  /\ UNCHANGED geom
  \* the collaborators are asked only past the test of the flag
  /\ \E kds \in IF hsys.flag
                  THEN [1 .. hsys.num_follicles -> KdAnswers(hsys.totcurves)]
                  ELSE { [i \in 1 .. hsys.num_follicles |-> NoAnswer] } :
       LET res == BKE_hair_bind_follicles(hsys, kds)
       IN IF res.f # "none" THEN Crash("bind_follicles", res.f)
          ELSE /\ hsys' = res.h
               /\ last' = [NoCall EXCEPT !.op = "bind_follicles",
                                         !.bret = res.r,
                                         !.dirty = hsys.flag]
               /\ UNCHANGED <<cache, fault>>

CacheUpdate ==
  /\ fault = "none"
  /\ UNCHANGED geom
  /\ \E requested_data \in Requests, subdiv \in {0, MaxSubdiv} :
       LET res == BKE_hair_export_cache_update(cache, hsys, subdiv, requested_data)
       IN IF res.f # "none"
            THEN Crashed(res.f, [NoCall EXCEPT !.op = "cache_update",
                                               !.arg = requested_data,
                                               !.subdiv = subdiv,
                                               !.vectors = res.vectors])
          ELSE /\ cache' = res.c
               /\ last' = [NoCall EXCEPT !.op = "cache_update",
                                         !.arg = requested_data,
                                         !.ret = res.r,
                                         !.order = res.order,
                                         !.subdiv = subdiv,
                                         !.vectors = res.vectors]
               /\ UNCHANGED <<hsys, fault>>

CacheInvalidate ==
  /\ fault = "none"
  /\ UNCHANGED geom
  /\ \E invalidate \in Requests \ { HAIR_EXPORT_ALL } :
       LET res == BKE_hair_export_cache_invalidate(cache, invalidate)
       IN IF res.f # "none" THEN Crash("cache_invalidate", res.f)
          ELSE /\ cache' = res.c
               /\ last' = [NoCall EXCEPT !.op = "cache_invalidate",
                                         !.arg = invalidate]
               /\ UNCHANGED <<hsys, fault>>

CacheClear ==
  /\ fault = "none"
  /\ UNCHANGED geom
  /\ LET res == BKE_hair_export_cache_clear(cache)
     IN IF res.f # "none" THEN Crash("cache_clear", res.f)
        ELSE /\ cache' = res.c
             /\ last' = [NoCall EXCEPT !.op = "cache_clear",
                                       !.arg = HAIR_EXPORT_ALL]
             /\ UNCHANGED <<hsys, fault>>

\* The cache is freed, and the owner goes on with a new one.
CacheFree ==
  /\ fault = "none"
  /\ UNCHANGED geom
  /\ LET res == BKE_hair_export_cache_free(cache)
     IN IF res.f # "none" THEN Crash("cache_free", res.f)
        ELSE /\ cache' = BKE_hair_export_cache_new
             /\ last' = [NoCall EXCEPT !.op = "cache_free"]
             /\ UNCHANGED <<hsys, fault>>

\* ---- specification of the hair system: the follicles, the operations that
\* resize, write or drop the guide curve array, and the binder ----

InitHair ==
  /\ hsys \in { BKE_hair_new, [BKE_hair_new EXCEPT !.pattern = FALSE] }
  /\ cache = BKE_hair_export_cache_new
  /\ last = NoCall
  /\ fault = "none"
  /\ geo = NoGeometry
  /\ usr = NoUsers
  /\ sub = NoSubdivision
  /\ Resting

NextHair ==
  \/ GenerateFollicles
  \/ FiberCurvesBegin
  \/ SetFiberCurve
  \/ SetFiberCurves
  \/ ClearFiberCurves
  \/ BindFollicles

SpecHair == InitHair /\ [][NextHair]_vars

\* ---- specification of the export cache ----

\* The guide curves of the hair systems the cache is driven with: n curves
\* of numverts vertices each, set through the curve setters.
RECURSIVE SetFiberCurvesFrom(_, _, _)
SetFiberCurvesFrom(h, n, numverts) ==
  IF n = 0 THEN h
  ELSE SetFiberCurvesFrom(BKE_hair_set_fiber_curve(h, n - 1, numverts).h,
                          n - 1, numverts)

HairWithCurves(n, numverts) ==
  BKE_hair_fiber_curves_end(
    SetFiberCurvesFrom(BKE_hair_fiber_curves_begin(BKE_hair_new, n).h,
                       n, numverts)).h

\* A hair system as BKE_hair_new makes it, one without a pattern (the case
\* BKE_hair_copy, BKE_hair_free, the binder and the update test for), or
\* one given guide curves; the cache is new.
InitCache ==
  /\ hsys \in { BKE_hair_new, [BKE_hair_new EXCEPT !.pattern = FALSE],
                HairWithCurves(MaxCurves, MaxNumVerts) }
  /\ cache = BKE_hair_export_cache_new
  /\ last = NoCall
  /\ fault = "none"
  /\ geo = NoGeometry
  /\ usr = NoUsers
  /\ sub = NoSubdivision
  /\ Resting

NextCache ==
  \/ GenerateFollicles
  \/ CacheUpdate
  \/ CacheInvalidate
  \/ CacheClear

SpecCache == InitCache /\ [][NextCache]_vars

\* ---- specification of the life of a cache: it is updated, invalidated,
\* cleared and freed, the hair system staying as it is ----

NextLife ==
  \/ CacheUpdate
  \/ CacheInvalidate
  \/ CacheClear
  \/ CacheFree

SpecLife == InitCache /\ [][NextLife]_vars

\* ---- specification of the binder: hair systems of 0 .. MaxStrands guide
\* strands, whose follicles are generated and bound ----

InitBind ==
  /\ hsys \in { HairWithCurves(n, numverts) :
                 n \in 0 .. MaxStrands, numverts \in 1 .. MaxNumVerts }
  /\ cache = BKE_hair_export_cache_new
  /\ last = NoCall
  /\ fault = "none"
  /\ geo = NoGeometry
  /\ usr = NoUsers
  /\ sub = NoSubdivision
  /\ Resting

NextBind ==
  \/ GenerateFollicles
  \/ BindFollicles

SpecBind == InitBind /\ [][NextBind]_vars

\* ---- specification of the sort: hair_fiber_sort_weights is called on a
\* follicle whose four slots hold any indices and any weights the binder
\* can have written ----

\* What a slot's parent_index can hold.
StrandIndices == (0 .. MaxStrands - 1) \cup {HAIR_STRAND_INDEX_NONE}

\* What a slot's parent_weight can hold: the binder clamps to [0, 1].
Weights == 0 .. WUnit

SortWeights ==
  /\ fault = "none"
  /\ hsys' = [hsys EXCEPT !.follicles.d =
                <<hair_fiber_sort_weights(hsys.follicles.d[1])>>]
  /\ last' = [NoCall EXCEPT !.op = "sort_weights", !.arg = hsys.follicles.d[1]]
  /\ UNCHANGED <<cache, fault, geom>>

InitSort ==
  /\ \E idx \in [1 .. 4 -> StrandIndices], w \in [1 .. 4 -> Weights] :
       hsys = [BKE_hair_new EXCEPT
                 !.follicles = LiveBuf(<<[ZeroFollicle EXCEPT
                                            !.parent_index = idx,
                                            !.parent_weight = w]>>),
                 !.num_follicles = 1]
  /\ cache = BKE_hair_export_cache_new
  /\ last = NoCall
  /\ fault = "none"
  /\ geo = NoGeometry
  /\ usr = NoUsers
  /\ sub = NoSubdivision
  /\ Resting

SpecSort == InitSort /\ [][SortWeights]_vars

\* ---- specification of the fibers: hair systems whose guide curves differ
\* in length, whose follicles are generated and bound, and whose cache is
\* updated and cleared ----

\* Guide curves of the given lengths, set one by one through the setters.
RECURSIVE SetFiberCurveLengths(_, _, _)
SetFiberCurveLengths(h, nvs, n) ==
  IF n = 0 THEN h
  ELSE SetFiberCurveLengths(BKE_hair_set_fiber_curve(h, n - 1, nvs[n]).h,
                            nvs, n - 1)

HairWithCurveLengths(nvs) ==
  BKE_hair_fiber_curves_end(
    SetFiberCurveLengths(BKE_hair_fiber_curves_begin(BKE_hair_new, Len(nvs)).h,
                         nvs, Len(nvs))).h

CurveLengths ==
  UNION { [1 .. n -> 1 .. MaxNumVerts] : n \in 0 .. MaxGuides }

InitFibers ==
  /\ hsys \in { HairWithCurveLengths(nvs) : nvs \in CurveLengths }
  /\ cache = BKE_hair_export_cache_new
  /\ last = NoCall
  /\ fault = "none"
  /\ geo = NoGeometry
  /\ usr = NoUsers
  /\ sub = NoSubdivision
  /\ Resting

NextFibers ==
  \/ GenerateFollicles
  \/ BindFollicles
  \/ CacheUpdate
  \/ CacheClear

SpecFibers == InitFibers /\ [][NextFibers]_vars

\* ---- specification of the offsets: hair systems of guide curves of
\* differing lengths, whose curves are rewritten and ended and whose cache
\* is updated and cleared ----

NextOffsets ==
  \/ SetFiberCurve
  \/ FiberCurvesEnd
  \/ CacheUpdate
  \/ CacheClear

SpecOffsets == InitFibers /\ [][NextOffsets]_vars

\* ---- specification of the setters: the curves of a hair system are
\* resized, written one by one and ended, and its vertices written, with
\* the indices the assertions of the setters let pass ----

NextSetters ==
  \/ FiberCurvesBegin
  \/ SetFiberCurve
  \/ FiberCurvesEnd
  \/ SetFiberVertex

SpecSetters == InitFibers /\ [][NextSetters]_vars

\* ---- specification of the geometry sets: holders create a set around a
\* mesh, hand out and give up references, make their set mutable and run
\* the Point Distribute node on it ----

\* What the pointer of holder h refers to.
Referent(g, h) ==
  IF g.ptr[h] = 0 THEN "null"
  ELSE IF GeometrySet_is_mutable(g, g.ptr[h]) THEN "unshared"
  ELSE "shared"

\* The heap at the start of an operation of holder h: the heap the previous
\* operation left, compacted.
Begin(name, h, density) ==
  [Compact(geo) EXCEPT
     !.asserted = FALSE,
     !.op = [NoOp EXCEPT !.name = name, !.by = h, !.density = density,
                         !.was = Referent(geo, h)]]

\* The objects one operation may allocate are at hand.
HeapHasRoom ==
  /\ FreeSets(geo) # {}
  /\ Cardinality(FreeComps(geo)) >= 2
  /\ Cardinality(FreeData(geo)) >= 3

CreateWithMesh ==
  /\ HeapHasRoom
  /\ \E h \in Holders, transfer_ownership \in BOOLEAN :
       /\ geo.ptr[h] = 0
       /\ LET g == Begin("create_with_mesh", h, 0)
              mesh == IF transfer_ownership
                        THEN Smallest(FreeData(g)) ELSE ExternalMesh
              made == create_with_mesh([g EXCEPT !.data[mesh] = TRUE],
                                       mesh, transfer_ownership)
          IN geo' = [made.g EXCEPT !.ptr[h] = made.s]
  /\ UNCHANGED <<hair, usr, sub, rest>>

\* BKE_geometry_set_user_add for a second pointer to the set
UserAdd ==
  /\ \E h \in Holders, k \in Holders :
       /\ geo.ptr[h] # 0
       /\ geo.ptr[k] = 0
       /\ LET g == Begin("user_add", k, 0)
          IN geo' = [GeometrySet_user_add(g, g.ptr[h]) EXCEPT
                       !.ptr[k] = g.ptr[h]]
  /\ UNCHANGED <<hair, usr, sub, rest>>

\* BKE_geometry_set_user_remove for a pointer that goes away
UserRemove ==
  /\ \E h \in Holders :
       /\ geo.ptr[h] # 0
       /\ LET g == Begin("user_remove", h, 0)
          IN geo' = [GeometrySet_user_remove(g, g.ptr[h]) EXCEPT !.ptr[h] = 0]
  /\ UNCHANGED <<hair, usr, sub, rest>>

MakeGeometrySetMutable ==
  /\ HeapHasRoom
  /\ \E h \in Holders :
       geo' = make_geometry_set_mutable(Begin("make_mutable", h, 0), h)
  /\ UNCHANGED <<hair, usr, sub, rest>>

PointDistribute ==
  /\ HeapHasRoom
  /\ \E h \in Holders, density \in (0 - 1) .. 1 :
       LET g == Begin("point_distribute", h, density)
           input == [g EXCEPT !.op.had_mesh =
                                g.ptr[h] # 0 /\ has_mesh(g, g.ptr[h])]
       IN geo' = geo_point_distribute_exec(input, h, density)
  /\ UNCHANGED <<hair, usr, sub, rest>>

InitGeo ==
  /\ hsys = BKE_hair_new
  /\ cache = BKE_hair_export_cache_new
  /\ last = NoCall
  /\ fault = "none"
  /\ geo = NoGeometry
  /\ usr = NoUsers
  /\ sub = NoSubdivision
  /\ Resting

NextGeo ==
  \/ CreateWithMesh
  \/ UserAdd
  \/ UserRemove
  \/ MakeGeometrySetMutable
  \/ PointDistribute

SpecGeo == InitGeo /\ [][NextGeo]_vars

\* ---- specification of the writers: holders create a set around a mesh,
\* hand out and give up references, and write to their set after making it
\* mutable ----

\* A holder makes its set mutable, asks for the mesh or the point cloud for
\* writing and modifies what it gets.
WriteInPlace ==
  /\ HeapHasRoom
  /\ \E h \in Holders, t \in ComponentTypes :
       LET g == make_geometry_set_mutable(Begin("write", h, 0), h)
           w == IF t = "Mesh" THEN get_mesh_for_write(g, g.ptr[h])
                ELSE get_pointcloud_for_write(g, g.ptr[h])
       IN geo' = IF w.data = 0 THEN w.g
                 ELSE [w.g EXCEPT !.edited[w.data] = TRUE]
  /\ UNCHANGED <<hair, usr, sub, rest>>

\* A holder makes its set mutable and replaces the mesh by a new mesh it
\* hands over, or by the mesh of the caller.
ReplaceMesh ==
  /\ HeapHasRoom
  /\ \E h \in Holders, transfer_ownership \in BOOLEAN :
       LET g == make_geometry_set_mutable(Begin("replace_mesh", h, 0), h)
           mesh == IF transfer_ownership
                     THEN Smallest(FreeData(g)) ELSE ExternalMesh
       IN geo' = replace_mesh([g EXCEPT !.data[mesh] = TRUE], g.ptr[h],
                              mesh, transfer_ownership)
  /\ UNCHANGED <<hair, usr, sub, rest>>

InitWrite ==
  /\ hsys = BKE_hair_new
  /\ cache = BKE_hair_export_cache_new
  /\ last = NoCall
  /\ fault = "none"
  /\ geo = NoGeometry
  /\ usr = NoUsers
  /\ sub = NoSubdivision
  /\ Resting

NextWrite ==
  \/ CreateWithMesh
  \/ UserAdd
  \/ UserRemove
  \/ PointDistribute
  \/ WriteInPlace
  \/ ReplaceMesh

SpecWrite == InitWrite /\ [][NextWrite]_vars

\* ---- specification of the node: holders create a set around a mesh, hand
\* out and give up references, give their set another mesh and run the
\* Point Distribute node on it ----

NextNode ==
  \/ CreateWithMesh
  \/ UserAdd
  \/ UserRemove
  \/ ReplaceMesh
  \/ PointDistribute

SpecNode == InitGeo /\ [][NextNode]_vars

\* ---- specification of the owners: holders create a set around a mesh,
\* hand out and give up references, replace, clear and release the mesh or
\* the point cloud of their set; the callers free what is theirs ----

\* The holder whose components are replaced, cleared and released; the
\* other holders share its set and drop it, or keep one of their own.
Owners == {1}

\* The meshes and point clouds no component holds: they are the callers'.
CallerData(g) ==
  { d \in DataIds \ {ExternalMesh} :
      g.data[d] /\ \A c \in CompIds : ~(g.comps[c].alive /\ g.comps[c].data = d) }

\* What a caller gives to replace: a mesh or point cloud it got back, or
\* else a new one when it transfers the ownership and its own mesh when it
\* keeps it.
GivenData(g, transfer_ownership) ==
  IF CallerData(g) # {} THEN CallerData(g)
  ELSE IF transfer_ownership THEN {Smallest(FreeData(g))}
  ELSE {ExternalMesh}

\* The component of type t of the set of holder h, for writing, once the
\* set was made mutable: [g: the heap, c: the component].
ComponentOf(name, h, t) ==
  LET g == make_geometry_set_mutable(Begin(name, h, 0), h)
  IN get_component_for_write([g EXCEPT !.op.type = t], g.ptr[h], t)

\* replace_mesh / replace_pointcloud with data the caller has at hand: a
\* new one or one it got from release.
ReplaceData ==
  /\ HeapHasRoom
  /\ \E h \in Owners, t \in ComponentTypes, transfer_ownership \in BOOLEAN :
       /\ geo.ptr[h] # 0
       /\ LET w == ComponentOf("replace", h, t)
          IN \E d \in GivenData(w.g, transfer_ownership) :
               geo' = Component_replace(
                        [w.g EXCEPT !.data[d] = TRUE, !.op.data = d],
                        w.c, d, transfer_ownership)
  /\ UNCHANGED <<hair, usr, sub, rest>>

ClearData ==
  /\ HeapHasRoom
  /\ \E h \in Owners, t \in ComponentTypes :
       /\ geo.ptr[h] # 0
       /\ LET w == ComponentOf("clear", h, t)
          IN geo' = Component_clear(w.g, w.c)
  /\ UNCHANGED <<hair, usr, sub, rest>>

ReleaseData ==
  /\ HeapHasRoom
  /\ \E h \in Owners, t \in ComponentTypes :
       /\ geo.ptr[h] # 0
       /\ CallerData(geo) = {}
       /\ LET w == ComponentOf("release", h, t)
              r == Component_release(w.g, w.c)
          IN geo' = [r.g EXCEPT !.op.data = r.data]
  /\ UNCHANGED <<hair, usr, sub, rest>>

\* The caller frees a mesh or point cloud that is its own.
CallerFree ==
  /\ \E d \in CallerData(Compact(geo)) :
       geo' = BKE_id_free(
                [Compact(geo) EXCEPT
                   !.asserted = FALSE,
                   !.op = [NoOp EXCEPT !.name = "caller_free", !.data = d]], d)
  /\ UNCHANGED <<hair, usr, sub, rest>>

NextOwner ==
  \/ CreateWithMesh
  \/ UserAdd
  \/ UserRemove
  \/ ReplaceData
  \/ ClearData
  \/ ReleaseData
  \/ CallerFree

SpecOwner == InitGeo /\ [][NextOwner]_vars

\* ---- specification of one reference-counted container (a GeometrySet or
\* a GeometryComponent) whose users are threads: each step is one atomic
\* operation on users_ or the code between two of them ----

\* users_.fetch_add(1) by thread t, which holds a reference; the new
\* reference is handed to thread u
ThreadUserAdd ==
  /\ \E t \in Threads, u \in Threads :
       /\ usr.pc[t] = "idle"
       /\ usr.refs[t] >= 1
       /\ usr.refs[u] < MaxRefs
       /\ usr' = [usr EXCEPT !.users = @ + 1,
                             !.refs[u] = @ + 1,
                             !.misuse = @ \/ usr.deleted > 0,
                             !.op = [name |-> "user_add", by |-> t,
                                     mutable |-> FALSE]]
  /\ UNCHANGED <<hair, geo, sub, rest>>

\* const int new_users = users_.fetch_sub(1) - 1;
ThreadFetchSub ==
  /\ \E t \in Threads :
       /\ usr.pc[t] = "idle"
       /\ usr.refs[t] >= 1
       /\ usr' = [usr EXCEPT !.users = @ - 1,
                             !.new_users[t] = usr.users - 1,
                             !.refs[t] = @ - 1,
                             !.pc[t] = "test",
                             !.misuse = @ \/ usr.deleted > 0,
                             !.op = [name |-> "fetch_sub", by |-> t,
                                     mutable |-> FALSE]]
  /\ UNCHANGED <<hair, geo, sub, rest>>

\* if (new_users == 0) { delete this; }
ThreadDelete ==
  /\ \E t \in Threads :
       /\ usr.pc[t] = "test"
       /\ usr' = [usr EXCEPT !.deleted = IF DeletesContainer(usr.new_users[t])
                                           THEN @ + 1 ELSE @,
                             !.new_users[t] = 0,
                             !.pc[t] = "idle",
                             !.op = [name |-> "delete", by |-> t,
                                     mutable |-> FALSE]]
  /\ UNCHANGED <<hair, geo, sub, rest>>

\* return users_ <= 1;
ThreadIsMutable ==
  /\ \E t \in Threads :
       /\ usr.pc[t] = "idle"
       /\ usr.refs[t] >= 1
       /\ usr' = [usr EXCEPT !.misuse = @ \/ usr.deleted > 0,
                             !.op = [name |-> "is_mutable", by |-> t,
                                     mutable |-> usr.users <= 1]]
  /\ UNCHANGED <<hair, geo, sub, rest>>

InitUsers ==
  /\ hsys = BKE_hair_new
  /\ cache = BKE_hair_export_cache_new
  /\ last = NoCall
  /\ fault = "none"
  /\ geo = NoGeometry
  /\ usr = NoUsers
  /\ sub = NoSubdivision
  /\ Resting

NextUsers ==
  \/ ThreadUserAdd
  \/ ThreadFetchSub
  \/ ThreadDelete
  \/ ThreadIsMutable

SpecUsers == InitUsers /\ [][NextUsers]_vars

\* ---- specification of the subdivider: one call of hair_curve_subdivide
\* for every curve of 1 .. MaxPoints control points, every level
\* 0 .. MaxLevel and every root position ----

PlacePoints ==
  /\ sub.pc = "start"
  /\ sub' = PlaceControlPoints(sub)
  /\ UNCHANGED <<hair, geo, usr, rest>>

\* d < subdiv
Subdivide ==
  /\ sub.pc = "levels"
  /\ sub.d < sub.subdiv
  /\ sub' = SubdivideLevel(sub)
  /\ UNCHANGED <<hair, geo, usr, rest>>

\* d == subdiv: the loop is left
ReturnNumVerts ==
  /\ sub.pc = "levels"
  /\ sub.d >= sub.subdiv
  /\ sub' = SubdivideReturn(sub)
  /\ UNCHANGED <<hair, geo, usr, rest>>

InitSubdiv ==
  /\ hsys = BKE_hair_new
  /\ cache = BKE_hair_export_cache_new
  /\ last = NoCall
  /\ fault = "none"
  /\ geo = NoGeometry
  /\ usr = NoUsers
  /\ Resting
  /\ \E numverts \in 1 .. MaxPoints :
       \E verts \in [1 .. numverts -> Coords], subdiv \in 0 .. MaxLevel,
          rootpos \in Coords :
         sub = SubdivisionCall(verts, subdiv, rootpos)

NextSubdiv ==
  \/ PlacePoints
  \/ Subdivide
  \/ ReturnNumVerts

SpecSubdiv == InitSubdiv /\ [][NextSubdiv]_vars

\* ---- specification of the distributor: a mesh of up to MaxTris triangles
\* is scattered MaxRuns times with one density ----

Scatter ==
  /\ Len(sct.runs) < MaxRuns
  /\ LET m == scatter_points_from_mesh(sct)
     IN sct' = [sct EXCEPT !.rng = m.rng,
                           !.runs = Append(@, [from |-> sct.rng,
                                               points |-> m.points,
                                               amounts |-> m.amounts])]
  /\ UNCHANGED <<hair, geo, usr, sub, bake, cpy, arc>>

Meshes == UNION { [1 .. n -> 0 .. MaxArea] : n \in 0 .. MaxTris }

Densities == 1 .. MaxDensity \cup {DefaultDensity}

\* The step of the generator maps its states one to one, as the step of a
\* linear congruential generator with an odd multiplier does.
GeneratorSteps ==
  { f \in [1 .. FUnit -> 0 .. FUnit - 1] :
      \A i, j \in 1 .. FUnit : i # j => f[i] # f[j] }

InitScatter ==
  /\ bake = NoBake
  /\ cpy = NoSystems
  /\ arc = NoArchives
  /\ hsys = BKE_hair_new
  /\ cache = BKE_hair_export_cache_new
  /\ last = NoCall
  /\ fault = "none"
  /\ geo = NoGeometry
  /\ usr = NoUsers
  /\ sub = NoSubdivision
  /\ \E mesh \in Meshes, density \in Densities :
       \E hash \in [1 .. Len(mesh) -> 0 .. FUnit - 1],
          next \in GeneratorSteps,
          rng \in 0 .. FUnit - 1 :
         sct = [NoScatter EXCEPT !.mesh = mesh, !.density = density,
                                 !.hash = hash, !.next = next, !.rng = rng]

NextScatter == Scatter

SpecScatter == InitScatter /\ [][NextScatter]_vars

\* ---- specification of the bake job: the job thread runs
\* cache_library_bake_start while the job system and the user may ask it to
\* stop at any moment ----

EvalModes == SUBSET {CACHE_LIBRARY_EVAL_REALTIME, CACHE_LIBRARY_EVAL_RENDER}

BakeStep(b) ==
  /\ bake' = b
  /\ UNCHANGED <<hair, geo, usr, sub, sct, cpy, arc>>

BakeStart ==
  /\ bake.pc = "idle"
  /\ \E archive \in BOOLEAN : BakeStep(bake_start_open(bake, archive))

BakePrepare ==
  /\ bake.pc = "pass_entry"
  /\ \E writer \in BOOLEAN : BakeStep(bake_do_prepare(bake, writer))

BakeEvaluate ==
  /\ bake.pc = "frame_eval"
  /\ BakeStep(bake_do_evaluate(bake))

BakeWrite ==
  /\ bake.pc = "frame_write"
  /\ BakeStep(bake_do_write(bake))

BakeCheck ==
  /\ bake.pc = "frame_check"
  /\ BakeStep(bake_do_check(bake))

BakeCleanup ==
  /\ bake.pc = "cleanup"
  /\ BakeStep(bake_do_cleanup(bake))

BakeFinish ==
  /\ bake.pc = "finish"
  /\ BakeStep(bake_start_finish(bake))

\* The job system sets *stop while the job runs.
RequestStop ==
  /\ bake.pc \notin {"exec", "idle", "done", "ended", "crashed"}
  /\ bake.use_job
  /\ bake.stop = 0
  /\ BakeStep([bake EXCEPT !.stop = 1])

\* The user presses Escape: G.is_break
UserBreak ==
  /\ bake.pc \notin {"exec", "done", "ended", "crashed"}
  /\ ~bake.is_break
  /\ BakeStep([bake EXCEPT !.is_break = TRUE])

BakeInit ==
  /\ bake.pc = "exec"
  /\ \E use_job \in BOOLEAN : BakeStep(cache_library_bake_init(bake, use_job))

BakeEnd ==
  /\ bake.pc = "done"
  /\ \E writer \in {"null", "wild"} :
       BakeStep(cache_library_bake_end(bake, writer))

JobThread ==
  \/ BakeStart
  \/ BakePrepare
  \/ BakeEvaluate
  \/ BakeWrite
  \/ BakeCheck
  \/ BakeCleanup
  \/ BakeFinish

InitBake ==
  /\ hsys = BKE_hair_new
  /\ cache = BKE_hair_export_cache_new
  /\ last = NoCall
  /\ fault = "none"
  /\ geo = NoGeometry
  /\ usr = NoUsers
  /\ sub = NoSubdivision
  /\ sct = NoScatter
  /\ cpy = NoSystems
  /\ arc = NoArchives
  /\ \E eval_mode \in EvalModes, end_frame \in 0 .. MaxFrames :
       bake = [NoBake EXCEPT !.eval_mode = eval_mode,
                             !.start_frame = 1,
                             !.end_frame = end_frame,
                             !.is_rendering = TRUE,
                             !.draw_locks = TRUE]

NextBake ==
  \/ BakeStart
  \/ BakePrepare
  \/ BakeEvaluate
  \/ BakeWrite
  \/ BakeCheck
  \/ BakeCleanup
  \/ BakeFinish
  \/ RequestStop
  \/ UserBreak

\* The job thread is scheduled until cache_library_bake_start returns.
SpecBake == InitBake /\ [][NextBake]_vars /\ WF_vars(JobThread)

\* ---- specification of the bake operator: cache_library_bake_exec runs
\* the bake as a job or blocking, from a scene at some frame, and
\* cache_library_bake_end ends it ----

InitOperator ==
  /\ hsys = BKE_hair_new
  /\ cache = BKE_hair_export_cache_new
  /\ last = NoCall
  /\ fault = "none"
  /\ geo = NoGeometry
  /\ usr = NoUsers
  /\ sub = NoSubdivision
  /\ sct = NoScatter
  /\ cpy = NoSystems
  /\ arc = NoArchives
  /\ \E eval_mode \in EvalModes, end_frame \in 0 .. MaxFrames,
        cfra \in {1, MaxFrames + 1}, framelen \in 1 .. 2 :
       bake = [NoBake EXCEPT !.pc = "exec",
                             !.eval_mode = eval_mode,
                             !.start_frame = 1,
                             !.end_frame = end_frame,
                             !.cfra = cfra, !.framelen = framelen,
                             !.found = [cfra |-> cfra, framelen |-> framelen]]

NextOperator ==
  \/ BakeInit
  \/ BakeStart
  \/ BakePrepare
  \/ BakeEvaluate
  \/ BakeWrite
  \/ BakeCheck
  \/ BakeCleanup
  \/ BakeFinish
  \/ BakeEnd
  \/ RequestStop
  \/ UserBreak

SpecOperator == InitOperator /\ [][NextOperator]_vars /\ WF_vars(JobThread)

\* ---- specification of the archive operators: the slice and the info
\* operator are called over and over with paths that are set or not and
\* files that open or not ----

FilePaths == {"", "cache.abc"}

ArchiveSlice ==
  /\ arc.readers < MaxOpen
  /\ \E input_filepath \in FilePaths, output_filepath \in FilePaths,
        input_archive \in BOOLEAN, output_archive \in BOOLEAN,
        start_frame \in 0 .. MaxFrames, end_frame \in 0 .. MaxFrames :
       arc' = cache_library_archive_slice_exec(
                arc, input_filepath, output_filepath,
                input_archive, output_archive, start_frame, end_frame)
  /\ UNCHANGED <<hair, geo, usr, sub, sct, bake, cpy>>

ArchiveInfo ==
  /\ arc.readers < MaxOpen
  /\ \E filepath \in FilePaths, archive \in BOOLEAN,
        use_cache_info \in BOOLEAN, calc_bytes_size \in BOOLEAN,
        use_stdout \in BOOLEAN :
       arc' = cache_library_archive_info_exec(
                arc, filepath, archive, use_cache_info, calc_bytes_size,
                use_stdout)
  /\ UNCHANGED <<hair, geo, usr, sub, sct, bake, cpy>>

InitArchive ==
  /\ hsys = BKE_hair_new
  /\ cache = BKE_hair_export_cache_new
  /\ last = NoCall
  /\ fault = "none"
  /\ geo = NoGeometry
  /\ usr = NoUsers
  /\ sub = NoSubdivision
  /\ Resting

NextArchive ==
  \/ ArchiveSlice
  \/ ArchiveInfo

SpecArchive == InitArchive /\ [][NextArchive]_vars

\* ---- specification of the copy: a hair system is built through the
\* setters, copied, and the two are changed and freed ----

\* One call on system k; a call that runs into a fault ends the run.
Call(name, k, c) ==
  /\ cpy' = [c EXCEPT !.op = [name |-> name, by |-> k], !.calls = @ + 1]
  /\ UNCHANGED <<hair, geo, usr, sub, sct, bake, arc>>

Exists(k) == cpy.fault = "none" /\ cpy.calls < MaxCalls /\ cpy.sys[k].self # 0

HairCopy ==
  /\ Exists(1)
  /\ cpy.sys[2].self = 0
  /\ cpy.op.name # "free"
  /\ Call("copy", 2, hair_copy(cpy, 1, 2))

HairFree ==
  \E k \in Systems :
    /\ Exists(k)
    /\ Call("free", k, hair_free(cpy, k))

HairGenerateFollicles ==
  \E k \in Systems, count \in 0 .. MaxFollicles :
    \E generated \in 0 .. count :
      /\ Exists(k)
      /\ Call("generate_follicles", k,
              hair_generate_follicles(cpy, k, count, generated))

\* begin, one set for every curve, end
HairWriteCurves ==
  \E k \in Systems, totcurves \in 0 .. MaxCurves, numverts \in 1 .. MaxNumVerts :
    /\ Exists(k)
    /\ LET c1 == hair_fiber_curves_begin(cpy, k, totcurves)
           c2 == IF totcurves = 0 THEN c1
                 ELSE hair_set_fiber_curve(c1, k, totcurves - 1, numverts)
       IN Call("write_curves", k, hair_fiber_curves_end(c2, k))

HairSetFiberCurves ==
  \E k \in Systems, totcurves \in 0 .. MaxCurves :
    /\ Exists(k)
    /\ Call("set_fiber_curves", k,
            hair_set_fiber_curves(cpy, k, totcurves, totcurves * MaxNumVerts))

HairClearFiberCurves ==
  \E k \in Systems :
    /\ Exists(k)
    /\ Call("clear_fiber_curves", k, hair_clear_fiber_curves(cpy, k))

InitCopy ==
  /\ hsys = BKE_hair_new
  /\ cache = BKE_hair_export_cache_new
  /\ last = NoCall
  /\ fault = "none"
  /\ geo = NoGeometry
  /\ usr = NoUsers
  /\ sub = NoSubdivision
  /\ sct = NoScatter
  /\ bake = NoBake
  /\ arc = NoArchives
  /\ \E drawn \in BOOLEAN :
       cpy = [hair_new(NoSystems, 1) EXCEPT !.sys[1].draw_batch_cache = drawn,
                                            !.sys[1].draw_texture_cache = drawn]

NextCopy ==
  \/ HairCopy
  \/ HairFree
  \/ HairGenerateFollicles
  \/ HairWriteCurves
  \/ HairSetFiberCurves
  \/ HairClearFiberCurves

SpecCopy == InitCopy /\ [][NextCopy]_vars

\* ---- properties ----

Range(seq) == { seq[i] : i \in 1 .. Len(seq) }

Absent(c) == hair_export_cache_get_required_updates(c)

Closure(data) == hair_export_cache_get_dependencies(data)

\* The buffers and counters a category owns.
Buffers(c, x) ==
  IF x = HAIR_EXPORT_FIBER_CURVES
    THEN << c.fiber_curves, c.totcurves, c.totverts >>
  ELSE IF x = HAIR_EXPORT_FIBER_VERTICES
    THEN << c.fiber_verts, c.fiber_tangents, c.fiber_normals >>
  ELSE IF x = HAIR_EXPORT_FOLLICLE_BINDING
    THEN << c.follicles, c.totfibercurves >>
  ELSE IF x = HAIR_EXPORT_FIBER_ROOT_POSITIONS
    THEN << c.fiber_root_position >>
  ELSE << c.fiber_numverts, c.totfiberverts >>

\* Every buffer pointer of the category is NULL.
PointersNull(c, x) ==
  IF x = HAIR_EXPORT_FIBER_CURVES
    THEN c.fiber_curves.p = "null"
  ELSE IF x = HAIR_EXPORT_FIBER_VERTICES
    THEN /\ c.fiber_verts.p = "null"
         /\ c.fiber_tangents.p = "null"
         /\ c.fiber_normals.p = "null"
  ELSE IF x = HAIR_EXPORT_FOLLICLE_BINDING
    THEN c.follicles = "null"
  ELSE IF x = HAIR_EXPORT_FIBER_ROOT_POSITIONS
    THEN c.fiber_root_position.p = "null"
  ELSE c.fiber_numverts.p = "null"

UpdateReturned == last.op = "cache_update" /\ fault = "none"

\* C1: an update that returns has recomputed exactly Closure(requested)
\* minus what was present at entry, returns exactly the categories it
\* recomputed, leaves each of them present and touches no buffer of any
\* other category -- for every hair system.
C1_UpdateRecomputesWhatItReturns ==
  [][ UpdateReturned' =>
        /\ last'.ret = Closure(last'.arg) \cap Absent(cache)
        /\ Range(last'.order) = last'.ret
        /\ last'.ret \cap Absent(cache') = {}
        /\ \A x \in HAIR_EXPORT_ALL \ last'.ret :
              Buffers(cache', x) = Buffers(cache, x) ]_vars

\* The place of a category in the order the specification gives:
\* vertex-counts and root-positions, follicle-binding, vertices, curves.
StatedRank(x) ==
  IF x \in {HAIR_EXPORT_FIBER_VERTEX_COUNTS, HAIR_EXPORT_FIBER_ROOT_POSITIONS}
    THEN 0
  ELSE IF x = HAIR_EXPORT_FOLLICLE_BINDING THEN 1
  ELSE IF x = HAIR_EXPORT_FIBER_VERTICES THEN 2
  ELSE 3

\* The place of a category in the order curves, vertices, follicle-binding,
\* vertex-counts, root-positions.
BlockRank(x) ==
  IF x = HAIR_EXPORT_FIBER_CURVES THEN 0
  ELSE IF x = HAIR_EXPORT_FIBER_VERTICES THEN 1
  ELSE IF x = HAIR_EXPORT_FOLLICLE_BINDING THEN 2
  ELSE IF x = HAIR_EXPORT_FIBER_VERTEX_COUNTS THEN 3
  ELSE 4

\* C2 as stated: within one update the categories are recomputed with
\* vertex-counts and root-positions first, then follicle-binding, then
\* vertices, then curves.
C2_StatedOrder ==
  UpdateReturned =>
    \A i, j \in 1 .. Len(last.order) :
      i < j => StatedRank(last.order[i]) <= StatedRank(last.order[j])

\* C2 amended: within one update the categories are recomputed in the
\* order curves, vertices, follicle-binding, vertex-counts, root-positions,
\* each at most once.
C2_BlockOrder ==
  UpdateReturned =>
    \A i, j \in 1 .. Len(last.order) :
      i < j => BlockRank(last.order[i]) < BlockRank(last.order[j])

\* An update that recomputed all five categories.
C2_Witness ==
  UpdateReturned /\ Len(last.order) = 5

\* C3: an update(Y) that directly follows an update(X) with Y inside
\* Closure(X) returns the empty set and changes no buffer and no counter.
C3_SecondUpdateRecomputesNothing ==
  [][ ( /\ UpdateReturned
        /\ UpdateReturned'
        /\ last'.arg \subseteq Closure(last.arg) )
      => (last'.ret = {} /\ cache' = cache) ]_vars

InvalidatedBinding ==
  /\ last.op = "cache_invalidate"
  /\ last.arg = {HAIR_EXPORT_FOLLICLE_BINDING}
  /\ fault = "none"

UpdatedCurves ==
  UpdateReturned /\ last.arg = {HAIR_EXPORT_FIBER_CURVES}

BindingAndDependents ==
  { HAIR_EXPORT_FOLLICLE_BINDING, HAIR_EXPORT_FIBER_ROOT_POSITIONS,
    HAIR_EXPORT_FIBER_VERTEX_COUNTS }

\* C4 as stated: the update(FIBER_CURVES) that follows an
\* invalidate(FOLLICLE_BINDING) returns all five categories, whatever was
\* present before.
C4_AllFiveRecomputed ==
  [][ (InvalidatedBinding /\ UpdatedCurves') => last'.ret = HAIR_EXPORT_ALL ]_vars

\* C4 amended: the update(FIBER_CURVES) that follows an
\* invalidate(FOLLICLE_BINDING) returns follicle-binding, root-positions and
\* vertex-counts, and returns vertices or curves only if they were absent
\* already.
C4_BindingDependentsRecomputed ==
  [][ (InvalidatedBinding /\ UpdatedCurves') =>
        last'.ret = BindingAndDependents
                      \cup (Absent(cache) \cap { HAIR_EXPORT_FIBER_VERTICES,
                                                 HAIR_EXPORT_FIBER_CURVES }) ]_vars

\* An update(FIBER_CURVES) that recomputed follicle-binding, vertex-counts
\* and root-positions and nothing else, on a cache that held its curves and
\* vertices.
C4_Witness ==
  /\ UpdatedCurves
  /\ last.order = << HAIR_EXPORT_FOLLICLE_BINDING,
                     HAIR_EXPORT_FIBER_VERTEX_COUNTS,
                     HAIR_EXPORT_FIBER_ROOT_POSITIONS >>
  /\ Absent(cache) = {}
  /\ cache.totcurves > 0

\* C5: after invalidate(S) or clear, every buffer pointer of every category
\* in Closure(S) is NULL and the categories outside Closure(S) are as they
\* were.
C5_InvalidateClearsClosure ==
  [][ ( /\ last'.op \in {"cache_invalidate", "cache_clear"}
        /\ fault' = "none" )
      => /\ \A x \in Closure(last'.arg) : PointersNull(cache', x)
         /\ \A x \in HAIR_EXPORT_ALL \ Closure(last'.arg) :
               Buffers(cache', x) = Buffers(cache, x) ]_vars

\* C6: the set of absent categories is closed under the dependency
\* expansion, which is what the update asserts at its start.
C6_AbsentIsClosed ==
  fault = "none" => Absent(cache) = Closure(Absent(cache))

\* C7: while the follicle-binding category is present, the borrowed
\* pointer refers to the live follicle array of the hair system and
\* totfibercurves is its num_follicles.
C7_BorrowedFolliclesLive ==
  (fault = "none" /\ HAIR_EXPORT_FOLLICLE_BINDING \notin Absent(cache)) =>
    /\ cache.follicles = "live"
    /\ hsys.follicles.p = "live"
    /\ cache.totfibercurves = hsys.num_follicles

BindReturned == last.op = "bind_follicles" /\ fault = "none"

Unbound(fol) ==
  /\ fol.parent_index = UnboundIndex
  /\ fol.parent_weight = <<0, 0, 0, 0>>

Follicles(h) == { h.follicles.d[i] : i \in 1 .. h.num_follicles }

\* C8: a call of the binder on a hair system without guide strands leaves
\* every follicle with four sentinel indices and four zero weights.
C8_NoStrandsLeavesUnbound ==
  [][ (BindReturned' /\ hsys.totcurves = 0) =>
        \A fol \in Follicles(hsys') : Unbound(fol) ]_vars

\* C9: generating follicles, resizing the curve array, writing a curve,
\* replacing the curves and clearing the curves each leave the binding flag
\* set; and while the flag is clear every parent index other than the
\* sentinel is below the number of guide curves.
C9_SettersLeaveFlagSet ==
  [][ /\ ( /\ fault' = "none"
           /\ \/ last'.op \in { "generate_follicles", "set_fiber_curve",
                                 "set_fiber_curves", "clear_fiber_curves" }
              \/ ( /\ last'.op = "fiber_curves_begin"
                   /\ hsys'.totcurves # hsys.totcurves ) )
         => hsys'.flag
      /\ (fault' = "none" /\ ~hsys'.flag) =>
            \A fol \in Follicles(hsys') : \A k \in 1 .. 4 :
              \/ fol.parent_index[k] = HAIR_STRAND_INDEX_NONE
              \/ fol.parent_index[k] < hsys'.totcurves ]_vars

\* C10: the binder called while the binding flag is clear returns true and
\* changes nothing of the hair system; and the binder leaves the flag
\* clear, so that a bind directly after a bind is such a call.
C10_BindWhenCleanIsNoOp ==
  [][ /\ (BindReturned' /\ ~hsys.flag) => (hsys' = hsys /\ last'.bret)
      /\ BindReturned' => ~hsys'.flag ]_vars

\* The binder was called with the flag clear on a hair system whose
\* follicle an earlier bind had bound to a guide strand.
C10_Witness ==
  /\ BindReturned
  /\ ~last.dirty
  /\ last.bret
  /\ hsys.totcurves > 0
  /\ \E fol \in Follicles(hsys) : fol.parent_weight[1] = WUnit

\* ---- the binder's weights ----

C12_SentinelIffZeroWeight ==
  [][ BindReturned' =>
        \A fol \in Follicles(hsys') : \A k \in 1 .. 4 :
          (fol.parent_index[k] = HAIR_STRAND_INDEX_NONE)
            <=> (fol.parent_weight[k] = 0) ]_vars

\* Bound to strand 0 alone.
BoundToOnlyStrand(fol) ==
  /\ fol.parent_index = << 0, HAIR_STRAND_INDEX_NONE, HAIR_STRAND_INDEX_NONE,
                           HAIR_STRAND_INDEX_NONE >>
  /\ fol.parent_weight = << WUnit, 0, 0, 0 >>

C14_MutatedOnlyWhileUnshared == ~geo.asserted

\* What holder k reads: its set, the mesh and the point cloud of the set
\* and whether they were modified.
Reads(g, k) ==
  LET mesh == get_mesh_for_read(g, g.ptr[k])
      pointcloud == get_pointcloud_for_read(g, g.ptr[k])
  IN << g.ptr[k], mesh, mesh # 0 /\ g.edited[mesh],
        pointcloud, pointcloud # 0 /\ g.edited[pointcloud] >>

\* The set of holder k and the data it reads are allocated.
ReadsLive(g, k) ==
  /\ g.sets[g.ptr[k]].alive
  /\ \A d \in { get_mesh_for_read(g, g.ptr[k]),
                get_pointcloud_for_read(g, g.ptr[k]) } \ {0} : g.data[d]

\* The set of holder h, or one of its components, has more than one user.
SharedWithOthers(g, h) ==
  /\ g.ptr[h] # 0
  /\ \/ ~GeometrySet_is_mutable(g, g.ptr[h])
     \/ \E t \in ComponentTypes :
          /\ g.sets[g.ptr[h]].components[t] # 0
          /\ ~GeometryComponent_is_mutable(g, g.sets[g.ptr[h]].components[t])

\* The latest operation made the geometry set of its holder mutable and
\* then wrote: the node on the path that replaces the mesh and the point
\* cloud, or a holder that replaced its mesh or modified its mesh or point
\* cloud in place.
WroteAfterMakeMutable(g) ==
  \/ /\ g.op.name = "point_distribute"
     /\ g.op.density > 0
     /\ g.op.was # "null"
     /\ get_pointcloud_for_read(g, g.ptr[g.op.by]) # 0
  \/ g.op.name \in {"write", "replace_mesh"}

\* C15: when a holder whose geometry set or component is shared makes the
\* set mutable and then replaces the mesh or the point cloud, or modifies
\* the mesh or the point cloud in place, every other holder reads the same
\* set, the same mesh and the same point cloud with the same contents
\* after the write as before it, and they are still allocated.
C15_WriteLeavesOtherHoldersAlone ==
  [][ (WroteAfterMakeMutable(geo') /\ SharedWithOthers(geo, geo'.op.by)) =>
        \A k \in Holders \ {geo'.op.by} :
          geo.ptr[k] # 0 =>
            /\ Reads(geo', k) = Reads(Compact(geo), k)
            /\ ReadsLive(geo', k) ]_vars

\* C16: after make_geometry_set_mutable the pointer refers to a set with at
\* most one user; a null pointer got a new empty set, an unshared set is
\* left as it was, and a shared set was replaced by a copy with the same
\* components while the original lost one user and is still allocated.
C16_MakeMutableGivesUnsharedSet ==
  [][ geo'.op.name = "make_mutable" =>
        LET h == geo'.op.by
            before == Compact(geo)
            s == before.ptr[h]
            n == geo'.ptr[h]
        IN /\ n # 0
           /\ geo'.sets[n].alive
           /\ GeometrySet_is_mutable(geo', n)
           /\ geo'.op.was = "null" => geo'.sets[n] = NewSet
           /\ geo'.op.was = "unshared" =>
                /\ n = s
                /\ geo'.sets = before.sets
                /\ geo'.comps = before.comps
           /\ geo'.op.was = "shared" =>
                /\ n # s
                /\ geo'.sets[n].components = before.sets[s].components
                /\ geo'.sets[s].alive
                /\ geo'.sets[s].users = before.sets[s].users - 1
                /\ geo'.sets[s].components = before.sets[s].components ]_vars

\* make_geometry_set_mutable ran on a pointer to a shared set.
C16_Witness ==
  /\ geo.op.name = "make_mutable"
  /\ geo.op.was = "shared"
  /\ \E k \in Holders \ {geo.op.by} : geo.ptr[k] # 0 /\ geo.ptr[k] # geo.ptr[geo.op.by]

\* ---- the user count under threads ----

RECURSIVE RefsHeld(_)
RefsHeld(n) == IF n = 0 THEN 0 ELSE usr.refs[n] + RefsHeld(n - 1)

\* C17: whatever the interleaving, the container is deleted at most once
\* and only when no thread holds a reference, nobody touches the counter of
\* a deleted container, the container is deleted once the last reference
\* is given up and its user_remove has finished, and a thread that is_mutable
\* answers true is the only one holding a reference.
C17_DeletedOnceByLastUser ==
  /\ usr.deleted <= 1
  /\ ~usr.misuse
  /\ usr.deleted = 1 => RefsHeld(MaxThreads) = 0
  /\ usr.users = RefsHeld(MaxThreads)
  /\ (RefsHeld(MaxThreads) = 0 /\ \A t \in Threads : usr.pc[t] = "idle")
       => usr.deleted = 1
  /\ (usr.op.name = "is_mutable" /\ usr.op.mutable)
       => \A u \in Threads \ {usr.op.by} : usr.refs[u] = 0

\* The container was deleted by a thread other than the first holder while
\* two user_remove calls were under way.
C17_Witness ==
  /\ usr.deleted = 1
  /\ usr.op.name = "delete"
  /\ usr.op.by # 1
  /\ \E t \in Threads : usr.pc[t] = "test"

\* ---- the subdivider ----

\* The index in r_verts of control point i (1 .. numverts).
ControlIndex(i) == (i - 1) * Shl(1, sub.subdiv)

\* Control point i moved by root - original vertex 0.
OffsetAdjusted(i) == sub.verts[i] + (sub.rootpos - sub.verts[1])

\* C18: a call with numverts >= 1 and level d >= 0 stays inside r_verts and
\* reads nothing unassigned; when it returns, it returns
\* ((numverts - 1) << d) + 1, which is hair_get_strand_subdiv_length of the
\* curve, and it has assigned every index below that count and no other.
C18_WritesEveryVertexInRange ==
  /\ sub.fault = "none"
  /\ sub.written \subseteq DOMAIN sub.r_verts
  /\ sub.pc = "done" =>
       /\ sub.ret = Shl(sub.numverts - 1, sub.subdiv) + 1
       /\ sub.ret = hair_get_strand_subdiv_length(sub.numverts, sub.subdiv)
       /\ sub.written = 0 .. sub.ret - 1

\* A curve of several control points was subdivided twice or more.
C18_Witness ==
  /\ sub.pc = "done"
  /\ sub.numverts >= 3
  /\ sub.subdiv >= 2
  /\ sub.written = 0 .. Shl(sub.numverts - 1, sub.subdiv)

\* C19 as stated: after the call every 2^d-th vertex is the offset-adjusted
\* control point, interior control points included.
C19_EveryControlPointReproduced ==
  sub.pc = "done" =>
    \A i \in 1 .. sub.numverts : sub.r_verts[ControlIndex(i)] = OffsetAdjusted(i)

\* C19: the control points are placed offset-adjusted at every 2^d-th
\* vertex; each level leaves the first and the last of them alone and
\* replaces an interior control point p by (a + 2 p + b) / 4, a and b being
\* its neighbours of that level: the round trip gives the first and the
\* last control point exactly, all of them at level 0, and an interior one
\* only where it lies midway between its neighbours at every level.
C19_InteriorControlPointsAveraged ==
  [][ /\ (sub.pc = "start" /\ sub'.pc = "levels") =>
           \A i \in 1 .. sub.numverts :
             sub'.r_verts[ControlIndex(i)] = OffsetAdjusted(i)
      /\ (sub.pc = "levels" /\ sub'.pc = "levels") =>
           LET step == Shl(1, sub.subdiv - sub.d)
           IN \A i \in 1 .. sub.numverts :
                LET j == ControlIndex(i)
                IN IF i \in {1, sub.numverts}
                     THEN sub'.r_verts[j] = sub.r_verts[j]
                     ELSE 4 * sub'.r_verts[j] =
                            sub.r_verts[j - step] + 2 * sub.r_verts[j]
                              + sub.r_verts[j + step]
      /\ (sub.pc = "levels" /\ sub'.pc = "done") =>
           /\ sub'.r_verts = sub.r_verts
           /\ sub.subdiv = 0 =>
                \A i \in 1 .. sub.numverts :
                  sub'.r_verts[ControlIndex(i)] = OffsetAdjusted(i) ]_vars

\* The call returned and an interior control point is not where the offset
\* put it, while the first and the last are.
C19_Witness ==
  /\ sub.pc = "done"
  /\ sub.subdiv >= 1
  /\ \E i \in 2 .. sub.numverts - 1 :
       sub.r_verts[ControlIndex(i)] # OffsetAdjusted(i)
  /\ \A i \in {1, sub.numverts} :
       sub.r_verts[ControlIndex(i)] = OffsetAdjusted(i)

\* C20: from the placement of the control points on, at every level and
\* when the call returns, vertex 0 is the root position and the last vertex
\* is the last control point plus the offset.
C20_EndPointsStay ==
  sub.pc \in {"levels", "done"} =>
    /\ sub.r_verts[0] = sub.rootpos
    /\ sub.r_verts[Shl(sub.numverts - 1, sub.subdiv)]
         = sub.verts[sub.numverts] + (sub.rootpos - sub.verts[1])

\* A curve whose root is moved and whose interior points were averaged
\* twice or more has its end points in place.
C20_Witness ==
  /\ sub.pc = "done"
  /\ sub.numverts >= 3
  /\ sub.subdiv >= 2
  /\ sub.rootpos # sub.verts[1]
  /\ sub.verts[sub.numverts] # sub.verts[1]
  /\ sub.r_verts[0] = sub.rootpos
  /\ sub.r_verts[Shl(sub.numverts - 1, sub.subdiv)] # sub.rootpos

\* ---- the fibers ----

\* The leading parent slots of a follicle that are in use: those before the
\* first slot holding the sentinel index or a zero weight.
UsedSlots(fol) ==
  { k \in 1 .. 4 :
      \A j \in 1 .. k : /\ fol.parent_index[j] # HAIR_STRAND_INDEX_NONE
                        /\ fol.parent_weight[j] # 0 }

\* WUnit times the weighted sum x of the parents' subdivided vertex counts.
RECURSIVE WeightedLength(_, _, _)
WeightedLength(c, fol, S) ==
  IF S = {} THEN 0
  ELSE LET k == CHOOSE j \in S : TRUE
       IN fol.parent_weight[k] * c.fiber_curves.d[fol.parent_index[k] + 1].numverts
            + WeightedLength(c, fol, S \ {k})

\* n = floor(x + 0.5), that is n <= x + 1/2 < n + 1, in units of 1 / (2 WUnit)
IsRounded(n, wx) ==
  /\ 2 * WUnit * n <= 2 * wx + WUnit
  /\ 2 * wx + WUnit < 2 * WUnit * (n + 1)

CountsRecomputed ==
  /\ last'.op = "cache_update"
  /\ HAIR_EXPORT_FIBER_VERTEX_COUNTS \in Range(last'.order)

\* C21: an update that recomputes the vertex counts leaves, for every cached
\* follicle, the count floor(x + 0.5), x being the sum over the follicle's
\* leading used parent slots of weight times the cached vertex count of that
\* guide curve (0 for a follicle without parent), and totfiberverts is the
\* sum of the counts.
C21_CountIsRoundedWeightedLength ==
  [][CountsRecomputed =>
       /\ Len(cache'.fiber_numverts.d) = cache'.totfibercurves
       /\ \A i \in 1 .. cache'.totfibercurves :
            LET fol == hsys.follicles.d[i]
            IN /\ IsRounded(cache'.fiber_numverts.d[i],
                            WeightedLength(cache', fol, UsedSlots(fol)))
               /\ UsedSlots(fol) = {} => cache'.fiber_numverts.d[i] = 0
       /\ cache'.totfiberverts = SumSeq(cache'.fiber_numverts.d)]_vars

\* A fiber between a guide of one vertex and a guide of two, half and half:
\* x = 1.5 and the count is 2.
C21_Witness ==
  /\ last.op = "cache_update"
  /\ HAIR_EXPORT_FIBER_VERTEX_COUNTS \in Range(last.order)
  /\ \E i \in 1 .. cache.totfibercurves :
       LET fol == hsys.follicles.d[i]
           wx == WeightedLength(cache, fol, UsedSlots(fol))
       IN /\ Cardinality(UsedSlots(fol)) >= 2
          /\ wx % WUnit # 0
          /\ cache.fiber_numverts.d[i] * WUnit > wx

\* ---- the follicle generator ----

Generated ==
  /\ last'.op = "generate_follicles"
  /\ fault' = "none"

\* C22 as stated: after BKE_hair_generate_follicles(hsys, scalp, seed, count)
\* the pattern holds exactly count follicles, num_follicles = count = the size
\* of the follicle array.
C22_ExactlyCountFollicles ==
  [][Generated =>
       /\ hsys'.num_follicles = last'.count
       /\ Len(hsys'.follicles.d) = last'.count]_vars

\* C22 amended: after a call that returns, the follicle array has count
\* elements, num_follicles is the number of samples the generator made, at
\* most count, and the elements past num_follicles are zero.
C22_AtMostCountFollicles ==
  [][Generated =>
       /\ hsys'.follicles.p = "live"
       /\ Len(hsys'.follicles.d) = last'.count
       /\ hsys'.num_follicles <= last'.count
       /\ \A i \in hsys'.num_follicles + 1 .. last'.count :
            hsys'.follicles.d[i] = ZeroFollicle]_vars

\* The generator made fewer samples than it was asked for.
C22_Witness ==
  /\ last.op = "generate_follicles"
  /\ fault = "none"
  /\ last.count > 0
  /\ hsys.num_follicles < last.count
  /\ Len(hsys.follicles.d) = last.count

\* ---- the distributor ----

\* C23: every triangle gets floor(area * density) points or one more, and
\* exactly floor(area * density) when area * density is whole; a triangle
\* without area gets none, a triangle of area 1 at density 10 gets 10 or 11,
\* and the vector returned holds the sum over the triangles.
C23_FloorOrOneMore ==
  \A r \in 1 .. Len(sct.runs) :
    LET run == sct.runs[r]
    IN /\ Len(run.amounts) = Len(sct.mesh)
       /\ \A t \in 1 .. Len(sct.mesh) :
            LET x == sct.mesh[t] * sct.density
                n == run.amounts[t]
            IN /\ FUnit * n <= x + (IF x % FUnit = 0 THEN 0 ELSE FUnit)
               /\ x < FUnit * (n + 1)
               /\ x % FUnit = 0 => FUnit * n = x
               /\ sct.mesh[t] = 0 => n = 0
               /\ (sct.mesh[t] = FUnit /\ sct.density = DefaultDensity)
                    => n \in {10, 11}
       /\ Len(run.points) = SumSeq(run.amounts)
       /\ \A t \in 1 .. Len(sct.mesh) :
            Cardinality({ i \in 1 .. Len(run.points) :
                            run.points[i].tri = t - 1 }) = run.amounts[t]

\* One run gave a triangle the extra point and another triangle with the
\* same fraction none.
C23_Witness ==
  /\ Len(sct.runs) >= 1
  /\ \E t, u \in 1 .. Len(sct.mesh) :
       LET run == sct.runs[1]
       IN /\ (sct.mesh[t] * sct.density) % FUnit # 0
          /\ (sct.mesh[u] * sct.density) % FUnit # 0
          /\ run.amounts[t] = IntOf(sct.mesh[t] * sct.density) + 1
          /\ run.amounts[u] = IntOf(sct.mesh[u] * sct.density)

\* The points a run returned for the triangle of the given index, in order.
PointsOf(run, looptri_index) ==
  SelectSeq(run.points, LAMBDA pt : pt.tri = looptri_index)

\* C24: two runs on the same mesh with the same density return the same
\* number of points for every triangle and the same points in the same
\* order, whatever the earlier run left behind; and two triangles whose
\* indices hash to the same seed and whose amounts are equal get the same
\* draws, wherever they are in the mesh.
C24_RunsAgree ==
  /\ \A r1, r2 \in 1 .. Len(sct.runs) :
       /\ sct.runs[r1].amounts = sct.runs[r2].amounts
       /\ sct.runs[r1].points = sct.runs[r2].points
  /\ \A r \in 1 .. Len(sct.runs) :
       \A t, u \in 1 .. Len(sct.mesh) :
         (sct.hash[t] = sct.hash[u] /\ sct.mesh[t] = sct.mesh[u])
           => /\ sct.runs[r].amounts[t] = sct.runs[r].amounts[u]
              /\ [i \in 1 .. sct.runs[r].amounts[t] |->
                    PointsOf(sct.runs[r], t - 1)[i].bary]
                 = [i \in 1 .. sct.runs[r].amounts[u] |->
                      PointsOf(sct.runs[r], u - 1)[i].bary]

\* Two runs that started from different generator storage and returned
\* points for two triangles.
C24_Witness ==
  /\ Len(sct.runs) = 2
  /\ sct.runs[1].from # sct.runs[2].from
  /\ Len(sct.mesh) >= 2
  /\ \A t \in 1 .. Len(sct.mesh) : sct.runs[2].amounts[t] > 0

\* ---- the Point Distribute node ----

\* The heap without the record of the latest operation.
Heap(g) == [g EXCEPT !.op = NoOp, !.asserted = FALSE]

Allocated(g) == { d \in DataIds : g.data[d] }

\* C25: run on a geometry set with a mesh and a density <= 0, the node
\* outputs a set with neither a mesh nor a point cloud and makes no point
\* cloud; run on no set or on a set without mesh, it outputs its input
\* unchanged.
C25_NoDensityClearsOutput ==
  [][geo'.op.name = "point_distribute" =>
       LET g == Compact(geo)
           h == geo'.op.by
           s == g.ptr[h]
       IN IF s = 0 \/ ~has_mesh(g, s)
            THEN Heap(geo') = Heap(g)
            ELSE geo'.op.density <= 0 =>
                   /\ geo'.ptr[h] # 0
                   /\ ~has_mesh(geo', geo'.ptr[h])
                   /\ ~has_pointcloud(geo', geo'.ptr[h])
                   /\ Allocated(geo') \subseteq Allocated(g)]_vars

\* The node has just cleared a set that had a mesh.
C25_Witness ==
  /\ geo.op.name = "point_distribute"
  /\ geo.op.had_mesh
  /\ geo.op.density < 0
  /\ ~has_mesh(geo, geo.ptr[geo.op.by])
  /\ ~has_pointcloud(geo, geo.ptr[geo.op.by])

\* ---- the bake job ----

\* The job has just found cache_library_bake_stop true.
ObservesStop == bake'.observed /\ ~bake.observed

LastWritten(b) ==
  b.written # << >> /\ b.written[Len(b.written)] = <<b.pass, b.frame>>

Cleaned(b) ==
  /\ b.writer = "null"
  /\ b.freed = b.made
  /\ ~b.baking
  /\ b.dupcaches = 0

\* C26: the job finds the stop flag set only at the entry of a pass or
\* after the sample of the frame it evaluated is written (a frame under
\* evaluation is always written); once it has found it set, no frame is
\* evaluated or written any more, in this pass or in the next; and the
\* cleanup of the pass runs all the same: when the job ends, and it ends,
\* every writer is freed, CACHE_LIBRARY_BAKING is clear and every dupli
\* cache is freed.
C26_StopEndsTheBake ==
  /\ [][ObservesStop =>
          \/ bake.pc = "pass_entry"
          \/ bake.pc = "frame_check" /\ LastWritten(bake)]_vars
  /\ [][(bake.pc = "frame_write" /\ bake'.pc # "frame_write") =>
          bake'.written = Append(bake.written, <<bake.pass, bake.frame>>)]_vars
  /\ [][bake.observed =>
          /\ bake'.evaluated = bake.evaluated
          /\ bake'.written = bake.written]_vars
  /\ [](bake.pc = "done" => Cleaned(bake) /\ bake.evaluated = bake.written)
  /\ (bake.observed ~> (bake.pc = "done" /\ Cleaned(bake)))

\* A job of two passes over two frames was stopped during its first frame:
\* the frame was written, nothing else, and the job is over.
C26_Witness ==
  /\ bake.pc = "done"
  /\ bake.observed
  /\ bake.eval_mode = {CACHE_LIBRARY_EVAL_REALTIME, CACHE_LIBRARY_EVAL_RENDER}
  /\ bake.end_frame = 2
  /\ bake.written = << <<1, 1>> >>
  /\ bake.made = 1

\* ---- the copy of a hair system ----

\* The blocks system k owns: its pattern and its arrays.
Owned(c, k) ==
  { c.sys[k].pattern, c.sys[k].follicles, c.sys[k].curves, c.sys[k].verts } \ {0}

\* The arrays of system k as a reader sees them.
Contents(c, k) ==
  [ follicles |-> IF c.sys[k].follicles = 0 THEN << >>
                  ELSE c.heap[c.sys[k].follicles].d,
    num_follicles |-> c.sys[k].num_follicles,
    curves |-> IF c.sys[k].curves = 0 THEN << >> ELSE c.heap[c.sys[k].curves].d,
    totcurves |-> c.sys[k].totcurves,
    verts |-> IF c.sys[k].verts = 0 THEN << >> ELSE c.heap[c.sys[k].verts].d,
    totverts |-> c.sys[k].totverts ]

Other(k) == 3 - k

\* What a call on one of two hair systems has to leave behind.
CopyKeepsApart ==
  cpy'.op.name # "none" =>
    LET k == cpy'.op.by
        j == Other(k)
    IN /\ cpy'.fault = "none"
       /\ cpy'.op.name = "copy" =>
            /\ Owned(cpy', 1) \cap Owned(cpy', 2) = {}
            /\ cpy'.sys[1].self # cpy'.sys[2].self
            /\ Contents(cpy', 2) = Contents(cpy', 1)
            /\ ~cpy'.sys[2].draw_batch_cache
            /\ ~cpy'.sys[2].draw_texture_cache
       /\ cpy.sys[j].self # 0 =>
            /\ cpy'.sys[j] = cpy.sys[j]
            /\ \A a \in Owned(cpy, j) \cup {cpy.sys[j].self} :
                 cpy'.heap[a] = cpy.heap[a] /\ cpy.heap[a].live
       /\ cpy'.op.name = "free" =>
            /\ \A a \in Owned(cpy, k) \cup {cpy.sys[k].self} :
                 ~cpy'.heap[a].live
            /\ cpy'.sys[j].self = 0 =>
                 \A a \in AllocIds : ~cpy'.heap[a].live

\* C27: BKE_hair_copy gives a hair system whose pattern, follicles, curves
\* and vertices are blocks of its own with the contents of the original's
\* and whose draw caches are NULL; every later setter, generate_follicles or
\* BKE_hair_free on one of the two returns and leaves the other's blocks
\* live and unchanged; and BKE_hair_free releases every block once: when
\* both are freed no block is left.
C27_CopyOwnsItsArrays == [][CopyKeepsApart]_vars

\* ---- the vertex offsets ----

\* The lengths of the first n curves of an array of curves.
Lengths(curves, n) == [j \in 1 .. n |-> curves[j].numverts]

\* The vertices curve i covers.
VertexRange(curves, i) ==
  curves[i].vertstart .. curves[i].vertstart + curves[i].numverts - 1

\* vertstart is the running total of numverts and totverts the total, the
\* ranges are disjoint, follow one another and lie inside a vertex array of
\* size elements.
PrefixSums(curves, totcurves, totverts, size) ==
  /\ \A i \in 1 .. totcurves :
       /\ curves[i].vertstart = SumSeq(Lengths(curves, i - 1))
       /\ VertexRange(curves, i) \subseteq 0 .. size - 1
       /\ i < totcurves =>
            curves[i + 1].vertstart = curves[i].vertstart + curves[i].numverts
       /\ \A j \in 1 .. totcurves :
            i # j => VertexRange(curves, i) \cap VertexRange(curves, j) = {}
  /\ totverts = SumSeq(Lengths(curves, totcurves))

\* The hair system's totverts is that of its curves: BKE_hair_fiber_curves_end
\* ran after the last change of a length.
Ended ==
  /\ hsys.curves.p = "live"
  /\ hsys.totverts = SumSeq(Lengths(hsys.curves.d, hsys.totcurves))

C29_FrameTransportOnTwoOrMore ==
  last.op = "cache_update" =>
    \A k \in 1 .. Len(last.vectors) :
      /\ hair_curve_calc_vectors(last.vectors[k]).asserted
      /\ hair_curve_calc_vectors(last.vectors[k]).reads
           \subseteq 0 .. last.vectors[k] - 1

\* ---- failed evaluations of a surface sample ----

\* C30: whenever the evaluation of a surface sample fails, the caller uses
\* the zero vector for the position and consumes no value the evaluation
\* left unset; stated of the call site that fills the cache's per-fiber
\* root positions: after an update that computed them, the root position of
\* every follicle whose sample fails to evaluate is the zero vector.
C30_FailedEvaluationGivesZero ==
  (fault = "none" /\ last.op = "cache_update"
     /\ HAIR_EXPORT_FIBER_ROOT_POSITIONS \in Range(last.order)) =>
    \A i \in 1 .. cache.totfibercurves :
      ~BKE_mesh_sample_eval(hsys.follicles.d[i].mesh_sample) =>
        cache.fiber_root_position.d[i] = 0

\* ---- the buffers of a cache over its life ----

OwnedBuffers(c) ==
  { c.fiber_curves, c.fiber_verts, c.fiber_tangents, c.fiber_normals,
    c.fiber_root_position, c.fiber_numverts }

\* C31: over every sequence of update, invalidate, clear and free of a
\* cache no owned buffer is freed twice and no freed buffer is reallocated,
\* read or written: every buffer pointer is NULL or refers to a live
\* allocation, and the borrowed follicles are not freed by the cache.
C31_BuffersNullOrLive ==
  /\ fault \notin {"double_free", "use_after_free"}
  /\ \A buf \in OwnedBuffers(cache) : buf.p \in {"null", "live"}
  /\ cache.follicles \in {"null", "live"}

\* ---- the cached curves as the update reads them ----

\* The categories an update of cache c computes when asked for requested.
Computed(c, requested) ==
  hair_export_cache_get_dependencies(requested)
    \cap hair_export_cache_get_required_updates(c)

\* The cache as the blocks after the curves block find it.
PastCurves(c, h, subdiv, requested) ==
  UpdateFiberCurves([c |-> c, order |-> << >>, f |-> "none"], h, subdiv,
                    Computed(c, requested))

\* The cached curves are there for the counters the vertices block uses,
\* and what hair_curve_subdivide writes for a curve stays inside the curve.
VerticesFindCurves(c, h, subdiv) ==
  /\ c.totcurves > 0 =>
       c.fiber_curves.p = "live" /\ c.totcurves <= Len(c.fiber_curves.d)
  /\ \A i \in 1 .. Min(c.totcurves, Min(Len(c.fiber_curves.d), Len(h.curves.d))) :
       LET curve == c.fiber_curves.d[i]
           written == curve.vertstart ..
                        curve.vertstart
                          + hair_get_strand_subdiv_length(h.curves.d[i].numverts,
                                                          subdiv) - 1
       IN /\ written \subseteq VertexRange(c.fiber_curves.d, i)
          /\ written \subseteq 0 .. c.totverts - 1

\* The cached curves are there for every parent the counts block reads.
CountsFindCurves(c, h) ==
  \A i \in 1 .. Min(c.totfibercurves, Len(h.follicles.d)) :
    ParentsRead(h.follicles.d[i], 1) # {} =>
      /\ c.fiber_curves.p = "live"
      /\ \A si \in ParentsRead(h.follicles.d[i], 1) : si < Len(c.fiber_curves.d)

\* C32: in every update, whatever was updated and invalidated before and
\* whatever is requested at whatever subdiv, the vertices block and the
\* vertex counts block run only while the cached curves are present and
\* agree with the counters used: no absent fiber_curves is dereferenced and
\* every vertex written lies in the range of its curve inside the buffers
\* of totverts elements.
C32_CurvesPresentWhereRead ==
  [][last'.op = "cache_update" =>
       LET m == PastCurves(cache, hsys, last'.subdiv, last'.arg)
           data == Computed(cache, last'.arg)
       IN m.f = "none" =>
            /\ HAIR_EXPORT_FIBER_VERTICES \in data =>
                 VerticesFindCurves(m.c, hsys, last'.subdiv)
            /\ (HAIR_EXPORT_FIBER_VERTEX_COUNTS \in data /\ hsys.pattern) =>
                 CountsFindCurves(
                   UpdateFollicleBinding(m, hsys, last'.subdiv, data).c, hsys)]_vars

\* ---- who frees a mesh or a point cloud ----

\* The components that hold d.
HoldersOf(g, d) == { c \in CompIds : g.comps[c].alive /\ g.comps[c].data = d }

\* What the step freed: allocated when the operation began, not after it.
FreedBy(g, h) == { d \in DataIds : g.data[d] /\ ~h.data[d] }

FlagsClear(b) ==
  /\ ~b.baking
  /\ \A p \in ParticleSystems : ~b.particle_baking[p]

\* cache_library_bake_do is entered in this step.
EntersBakeDo == bake.pc = "pass_entry" /\ Passes[bake.pass] \in bake.eval_mode

\* cache_library_bake_do returns in this step: from its entry (stop seen,
\* no writer) or from its cleanup (loop completed or aborted).
ReturnsFromBakeDo ==
  \/ EntersBakeDo /\ bake'.pc \notin {"frame_eval", "cleanup"}
  \/ bake.pc = "cleanup" /\ bake'.pc # "cleanup"

\* C34: the baking flags are transient: CACHE_LIBRARY_BAKING and every
\* PTCACHE_BAKING, clear when cache_library_bake_do is entered, are clear
\* again when it returns, on every path; in the frame loop PTCACHE_BAKING
\* of every particle system is clear while the first frame is evaluated and
\* set while every later frame is evaluated.
C34_BakingFlagsAreTransient ==
  [][ /\ EntersBakeDo => FlagsClear(bake)
      /\ ReturnsFromBakeDo => FlagsClear(bake')
      /\ (bake.pc = "frame_eval" /\ bake'.pc = "frame_write") =>
           \A p \in ParticleSystems :
             bake'.particle_baking[p] = (bake.frame # bake.start_frame) ]_vars

\* The second frame of the second pass is being evaluated with the particle
\* flags set, after a first pass that returned with the flags clear.
C34_Witness ==
  /\ bake.pc = "frame_write"
  /\ bake.pass = 2
  /\ bake.frame = 2
  /\ bake.made = 2
  /\ bake.baking
  /\ \A p \in ParticleSystems : bake.particle_baking[p]

\* cache_library_bake_end was called.
BakeEnded == bake.pc \in {"ended", "crashed"}

\* C35: a bake leaves the scene clock as it found it: after
\* cache_library_bake_start and cache_library_bake_end the scene's current
\* frame and frame length are what they were before, whatever was baked,
\* whether or not the archive opened, the bake was stopped, one or two
\* passes ran; G.is_rendering is false and the draw locks are released.
C35_BakeLeavesSceneClock ==
  BakeEnded =>
    /\ bake.cfra = bake.found.cfra
    /\ bake.framelen = bake.found.framelen
    /\ ~bake.is_rendering
    /\ ~bake.draw_locks

\* C36: in every run of the operator cache_library_bake_end frees only a
\* writer that cache_library_bake_do created and did not free: no writer is
\* freed that was not created, when the operator is over every created
\* writer was freed once and every opened archive closed once, and the
\* writer field is not read before it was assigned.
C36_EndFreesWhatWasCreated ==
  /\ [](bake.freed <= bake.made /\ bake.closed <= bake.opened)
  /\ [](bake.fault = "none")
  /\ [](BakeEnded => bake.freed = bake.made /\ bake.closed = bake.opened)
  /\ [][(bake.pc = "done" /\ bake'.pc # "done") => bake.writer # "uninit"]_vars

\* ---- the archive operators ----

\* C37: every archive the slice and the info operator open is closed when
\* the operator returns, on success and on every error path: in
\* particular the slice operator returns CANCELLED with the input archive
\* closed when the input archive opened and the output archive did not.
C37_OperatorsCloseTheirArchives ==
  arc.op # "none" =>
    /\ arc.closed = arc.opened
    /\ arc.readers = 0
    /\ arc.writers = 0

\* ---- the setters of curves and vertices ----

\* C38: the assertions of BKE_hair_set_fiber_curve and
\* BKE_hair_set_fiber_vertex guard the bounds of the arrays: a call whose
\* index the assertion accepts writes an element inside the array.
C38_AssertedIndexIsInsideArray ==
  [][last'.op \in {"set_fiber_curve", "set_fiber_vertex"} =>
       fault' # "out_of_bounds"]_vars

\* C39: after BKE_hair_set_fiber_curves(hsys, curves) the curve and vertex
\* arrays of the hair system are new copies of the argument's arrays:
\* totcurves and totverts are the argument's counts and the arrays have
\* that many elements; the arrays the system had were freed once and no
\* freed array was read (the call returned).
C39_SetFiberCurvesCopiesArrays ==
  [][last'.op = "set_fiber_curves" =>
       /\ fault' = "none"
       /\ hsys'.curves.p # "freed"
       /\ hsys'.verts.p # "freed"
       /\ Len(hsys'.curves.d) = hsys'.totcurves
       /\ Len(hsys'.verts.d) = hsys'.totverts]_vars

\* ---- the sort of the parent weights ----

\* The slots of fol are those of was in another order: each index is in
\* the slot of its own weight.
SamePairs(fol, was) ==
  \E p \in Permutations(1 .. 4) :
    \A k \in 1 .. 4 :
      /\ fol.parent_weight[k] = was.parent_weight[p[k]]
      /\ fol.parent_index[k] = was.parent_index[p[k]]

\* C40: whatever the four slots hold, hair_fiber_sort_weights leaves the
\* weights non-increasing over the slots 0..3 and the pairs (parent_index,
\* parent_weight) the same, each index with its own weight, so that the
\* slots of non-zero weight are the leading ones.
C40_SortKeepsPairsAndOrders ==
  last.op = "sort_weights" =>
    LET fol == hsys.follicles.d[1]
        w == fol.parent_weight
    IN /\ \A k \in 1 .. 3 : w[k] >= w[k + 1]
       /\ SamePairs(fol, last.arg)
       /\ \A k \in 1 .. 4 : w[k] # 0 => \A j \in 1 .. k : w[j] # 0

\* The sort was given weights rising over the slots, the only non-zero
\* ones in the last two, with four indices that differ, and turned them
\* round.
C40_Witness ==
  /\ last.op = "sort_weights"
  /\ last.arg.parent_weight = <<0, 0, 1, WUnit>>
  /\ last.arg.parent_index = <<0, 1, 2, HAIR_STRAND_INDEX_NONE>>
  /\ hsys.follicles.d[1].parent_weight = <<WUnit, 1, 0, 0>>
  /\ hsys.follicles.d[1].parent_index[1] = HAIR_STRAND_INDEX_NONE
  /\ hsys.follicles.d[1].parent_index[2] = 2

====
